---------------------------- MODULE Spec2Model ----------------------------
(***************************************************************************)
(* Square matrices (2x2, 3x3, 4x4) of src/src/mat.rs and the projection    *)
(* builders of src/src/cgmath/projection.rs.                               *)
(*                                                                         *)
(* A scalar is a pair <<n, d>>.  d > 0: the rational n/d in lowest terms.  *)
(* d = 0: a non-finite float, <<1,0>> = +inf, <<-1,0>> = -inf and          *)
(* <<0,0>> = NaN.  Arithmetic is exact (no rounding), and follows IEEE-754 *)
(* on division by zero and on the non-finite values.  The matrix code      *)
(* works with a single zero; the projection builders, whose divisors are   *)
(* differences that can be -0.0, carry the sign of a zero (Float_mul...).  *)
(*                                                                         *)
(* A vector is a tuple of scalars; a matrix is a tuple of column vectors   *)
(* (column major).  The source indexes from 0, tuples from 1: self[c][r]   *)
(* of the source is m[c+1][r+1], written E(m, c, r).                       *)
(***************************************************************************)
EXTENDS Integers, Sequences, FiniteSets, TLC

---------------------------------------------------------------------------
(* Scalars: the external Float type                                        *)

RECURSIVE GCD(_, _)
GCD(a, b) == IF b = 0 THEN a ELSE GCD(b, a % b)

IAbs(k) == IF k < 0 THEN -k ELSE k

Sgn(k) == IF k > 0 THEN 1 ELSE IF k < 0 THEN -1 ELSE 0

Norm(nn, dd) ==
    IF dd = 0 THEN <<Sgn(nn), 0>>
    ELSE LET g == GCD(IAbs(nn), IAbs(dd))
             s == IF dd < 0 THEN -1 ELSE 1
         IN  <<(s * nn) \div g, (s * dd) \div g>>

R(k) == <<k, 1>>

NaN == <<0, 0>>

IsFinite(a) == a[2] # 0

IsNaN(a) == a = NaN

Neg(a) == <<-a[1], a[2]>>

Add(a, b) ==
    IF IsFinite(a) /\ IsFinite(b)
    THEN LET g == GCD(a[2], b[2])
         IN  Norm(a[1] * (b[2] \div g) + b[1] * (a[2] \div g), a[2] * (b[2] \div g))
    ELSE IF ~IsFinite(a) /\ ~IsFinite(b) THEN (IF a = b THEN a ELSE NaN)
    ELSE IF ~IsFinite(a) THEN a ELSE b

Sub(a, b) == Add(a, Neg(b))

\* common factors are cancelled before multiplying
Mul(a, b) ==
    IF IsFinite(a) /\ IsFinite(b)
    THEN LET g1 == GCD(IAbs(a[1]), b[2])
             g2 == GCD(IAbs(b[1]), a[2])
         IN  <<(a[1] \div g1) * (b[1] \div g2), (a[2] \div g2) * (b[2] \div g1)>>
    ELSE Norm(a[1] * b[1], 0)

Div(a, b) ==
    IF IsFinite(b) /\ b[1] # 0 THEN Mul(a, Norm(b[2], b[1]))
    ELSE IF IsFinite(b) THEN <<Sgn(a[1]), 0>>
    ELSE IF IsNaN(b) \/ ~IsFinite(a) THEN NaN
    ELSE R(0)

abs(a) == <<IAbs(a[1]), a[2]>>

Lt(a, b) ==
    IF IsNaN(a) \/ IsNaN(b) THEN FALSE
    ELSE IF ~IsFinite(a) /\ ~IsFinite(b) THEN a[1] < b[1]
    ELSE a[1] * b[2] < b[1] * a[2]

Gt(a, b) == Lt(b, a)

Ge(a, b) == ~IsNaN(a) /\ ~IsNaN(b) /\ ~Lt(a, b)

\* FUZZY_EPSILON of std::cmp::FuzzyEq is 1.0e-6, written 1/EpsDen.
EpsDen == 1000000

\* fuzzy_eq: abs(a - b) < FUZZY_EPSILON  (n/d < 1/EpsDen iff n * EpsDen < d)
FuzzyEq(a, b) ==
    LET e == abs(Sub(a, b))
    IN  IsFinite(e) /\ e[1] <= (e[2] - 1) \div EpsDen

---------------------------------------------------------------------------
(* Vectors: the external Vec2 / Vec3 / Vec4 types                          *)

RECURSIVE SumFrom(_, _)
SumFrom(s, k) == IF k = Len(s) THEN s[k] ELSE Add(s[k], SumFrom(s, k + 1))

Vec_dot(u, v) == SumFrom([k \in 1..Len(u) |-> Mul(u[k], v[k])], 1)

Vec_add_v(u, v) == [k \in 1..Len(u) |-> Add(u[k], v[k])]

Vec_sub_v(u, v) == [k \in 1..Len(u) |-> Sub(u[k], v[k])]

Vec_mul_t(u, t) == [k \in 1..Len(u) |-> Mul(u[k], t)]

Vec_div_t(u, t) == [k \in 1..Len(u) |-> Div(u[k], t)]

Vec_neg(u) == [k \in 1..Len(u) |-> Neg(u[k])]

Vec3_cross(u, v) ==
    << Sub(Mul(u[2], v[3]), Mul(u[3], v[2])),
       Sub(Mul(u[3], v[1]), Mul(u[1], v[3])),
       Sub(Mul(u[1], v[2]), Mul(u[2], v[1])) >>

\* swap(a, b): exchange components a and b (0-based)
Vec_swap(u, a, b) ==
    [k \in 1..Len(u) |-> IF k = a + 1 THEN u[b + 1]
                         ELSE IF k = b + 1 THEN u[a + 1] ELSE u[k]]

Vec_fuzzy_eq(u, v) == \A k \in 1..Len(u) : FuzzyEq(u[k], v[k])

---------------------------------------------------------------------------
(* Element access                                                          *)

\* self[c][r]: the Index impls return column c, whose component r is read
E(m, c, r) == m[c + 1][r + 1]

\* col_mut(c).index_mut(r) = x
SetE(m, c, r, x) == [m EXCEPT ![c + 1][r + 1] = x]

\* *col_mut(c) = v
SetCol(m, c, v) == [m EXCEPT ![c + 1] = v]

\* util::swap(col_mut(c1).index_mut(r1), col_mut(c2).index_mut(r2))
SwapE(m, c1, r1, c2, r2) == SetE(SetE(m, c1, r1, E(m, c2, r2)), c2, r2, E(m, c1, r1))

---------------------------------------------------------------------------
(* Mat2                                                                    *)

Vec2_new(x, y) == <<x, y>>

Mat2_from_cols(c0, c1) == <<c0, c1>>

Mat2_new(c0r0, c0r1, c1r0, c1r1) ==
    Mat2_from_cols(Vec2_new(c0r0, c0r1), Vec2_new(c1r0, c1r1))

Mat2_identity == Mat2_new(R(1), R(0), R(0), R(1))

Mat2_zero == Mat2_new(R(0), R(0), R(0), R(0))

Mat2_col(m, i) == m[i + 1]

Mat2_row(m, i) == Vec2_new(E(m, 0, i), E(m, 1, i))

Mat2_mul_t(m, value) ==
    Mat2_from_cols(Vec_mul_t(m[1], value), Vec_mul_t(m[2], value))

Mat2_mul_v(m, vec) ==
    Vec2_new(Vec_dot(Mat2_row(m, 0), vec), Vec_dot(Mat2_row(m, 1), vec))

Mat2_add_m(m, other) ==
    Mat2_from_cols(Vec_add_v(m[1], other[1]), Vec_add_v(m[2], other[2]))

Mat2_sub_m(m, other) ==
    Mat2_from_cols(Vec_sub_v(m[1], other[1]), Vec_sub_v(m[2], other[2]))

Mat2_mul_m(m, other) ==
    Mat2_new(Vec_dot(Mat2_row(m, 0), Mat2_col(other, 0)), Vec_dot(Mat2_row(m, 1), Mat2_col(other, 0)),
             Vec_dot(Mat2_row(m, 0), Mat2_col(other, 1)), Vec_dot(Mat2_row(m, 1), Mat2_col(other, 1)))

Mat2_determinant(m) ==
    Sub(Mul(E(m, 0, 0), E(m, 1, 1)), Mul(E(m, 1, 0), E(m, 0, 1)))

Mat2_trace(m) == Add(E(m, 0, 0), E(m, 1, 1))

\* a transpose that copies the matrix
Mat2_transpose_copy(m) ==
    Mat2_new(E(m, 0, 0), E(m, 0, 1),
             E(m, 1, 0), E(m, 1, 1))

Mat2_transpose(m) ==
    Mat2_new(E(m, 0, 0), E(m, 1, 0),
             E(m, 0, 1), E(m, 1, 1))

Mat2_dot(m, other) == Mat2_trace(Mat2_mul_m(Mat2_transpose(other), m))

\* Option<Mat>: <<>> is None, <<x>> is Some(x)
None == <<>>

Some(x) == <<x>>

IsSome(o) == Len(o) = 1

Unwrap(o) == o[1]

\* an inverse that tests the determinant for exact zero
Mat2_inverse_exact(m) ==
    LET d == Mat2_determinant(m)
    IN  IF d = R(0) THEN None
        ELSE Some(Mat2_new(Div(E(m, 1, 1), d), Div(Neg(E(m, 0, 1)), d),
                           Div(Neg(E(m, 1, 0)), d), Div(E(m, 0, 0), d)))

Mat2_inverse(m) ==
    LET d == Mat2_determinant(m)
    IN  IF FuzzyEq(d, R(0)) THEN None
        ELSE Some(Mat2_new(Div(E(m, 1, 1), d), Div(Neg(E(m, 0, 1)), d),
                           Div(Neg(E(m, 1, 0)), d), Div(E(m, 0, 0), d)))

Mat2_fuzzy_eq(m, other) ==
    Vec_fuzzy_eq(m[1], other[1]) /\ Vec_fuzzy_eq(m[2], other[2])

Mat2_is_identity(m) == Mat2_fuzzy_eq(m, Mat2_identity)

Mat2_is_symmetric(m) ==
    FuzzyEq(E(m, 0, 1), E(m, 1, 0)) /\ FuzzyEq(E(m, 1, 0), E(m, 0, 1))

Mat2_is_invertible(m) == ~FuzzyEq(Mat2_determinant(m), R(0))

---------------------------------------------------------------------------
(* Mat3                                                                    *)

Vec3_new(x, y, z) == <<x, y, z>>

Mat3_from_cols(c0, c1, c2) == <<c0, c1, c2>>

Mat3_new(c0r0, c0r1, c0r2, c1r0, c1r1, c1r2, c2r0, c2r1, c2r2) ==
    Mat3_from_cols(Vec3_new(c0r0, c0r1, c0r2),
                   Vec3_new(c1r0, c1r1, c1r2),
                   Vec3_new(c2r0, c2r1, c2r2))

Mat3_from_Mat2(m) ==
    Mat3_new(E(m, 0, 0), E(m, 0, 1), R(0),
             E(m, 1, 0), E(m, 1, 1), R(0),
             R(0),       R(0),       R(1))

Mat3_identity ==
    Mat3_new(R(1), R(0), R(0),
             R(0), R(1), R(0),
             R(0), R(0), R(1))

Mat3_zero ==
    Mat3_new(R(0), R(0), R(0),
             R(0), R(0), R(0),
             R(0), R(0), R(0))

Mat3_col(m, i) == m[i + 1]

Mat3_row(m, i) == Vec3_new(E(m, 0, i), E(m, 1, i), E(m, 2, i))

Mat3_mul_t(m, value) ==
    Mat3_from_cols(Vec_mul_t(m[1], value), Vec_mul_t(m[2], value), Vec_mul_t(m[3], value))

\* mul_v reading the columns where the rows are meant
Mat3_mul_v_cols(m, vec) ==
    Vec3_new(Vec_dot(Mat3_col(m, 0), vec),
             Vec_dot(Mat3_col(m, 1), vec),
             Vec_dot(Mat3_col(m, 2), vec))

Mat3_mul_v(m, vec) ==
    Vec3_new(Vec_dot(Mat3_row(m, 0), vec),
             Vec_dot(Mat3_row(m, 1), vec),
             Vec_dot(Mat3_row(m, 2), vec))

Mat3_add_m(m, other) ==
    Mat3_from_cols(Vec_add_v(m[1], other[1]), Vec_add_v(m[2], other[2]), Vec_add_v(m[3], other[3]))

Mat3_sub_m(m, other) ==
    Mat3_from_cols(Vec_sub_v(m[1], other[1]), Vec_sub_v(m[2], other[2]), Vec_sub_v(m[3], other[3]))

\* a product with the operands the other way round
Mat3_mul_m_swapped(m, other) ==
    Mat3_new(Vec_dot(Mat3_row(other, 0), Mat3_col(m, 0)), Vec_dot(Mat3_row(other, 1), Mat3_col(m, 0)), Vec_dot(Mat3_row(other, 2), Mat3_col(m, 0)),
             Vec_dot(Mat3_row(other, 0), Mat3_col(m, 1)), Vec_dot(Mat3_row(other, 1), Mat3_col(m, 1)), Vec_dot(Mat3_row(other, 2), Mat3_col(m, 1)),
             Vec_dot(Mat3_row(other, 0), Mat3_col(m, 2)), Vec_dot(Mat3_row(other, 1), Mat3_col(m, 2)), Vec_dot(Mat3_row(other, 2), Mat3_col(m, 2)))

Mat3_mul_m(m, other) ==
    Mat3_new(Vec_dot(Mat3_row(m, 0), Mat3_col(other, 0)), Vec_dot(Mat3_row(m, 1), Mat3_col(other, 0)), Vec_dot(Mat3_row(m, 2), Mat3_col(other, 0)),
             Vec_dot(Mat3_row(m, 0), Mat3_col(other, 1)), Vec_dot(Mat3_row(m, 1), Mat3_col(other, 1)), Vec_dot(Mat3_row(m, 2), Mat3_col(other, 1)),
             Vec_dot(Mat3_row(m, 0), Mat3_col(other, 2)), Vec_dot(Mat3_row(m, 1), Mat3_col(other, 2)), Vec_dot(Mat3_row(m, 2), Mat3_col(other, 2)))

\* a triple product that takes row 2 for column 2
Mat3_determinant_mixed(m) ==
    Vec_dot(Mat3_col(m, 0), Vec3_cross(Mat3_col(m, 1), Mat3_row(m, 2)))

Mat3_determinant(m) ==
    Vec_dot(Mat3_col(m, 0), Vec3_cross(Mat3_col(m, 1), Mat3_col(m, 2)))

Mat3_trace(m) == Add(Add(E(m, 0, 0), E(m, 1, 1)), E(m, 2, 2))

Mat3_transpose(m) ==
    Mat3_new(E(m, 0, 0), E(m, 1, 0), E(m, 2, 0),
             E(m, 0, 1), E(m, 1, 1), E(m, 2, 1),
             E(m, 0, 2), E(m, 1, 2), E(m, 2, 2))

Mat3_dot(m, other) == Mat3_trace(Mat3_mul_m(Mat3_transpose(other), m))

\* an inverse that leaves out the final transpose
Mat3_inverse_untransposed(m) ==
    LET d == Mat3_determinant(m)
    IN  IF FuzzyEq(d, R(0)) THEN None
        ELSE Some(Mat3_from_cols(Vec_div_t(Vec3_cross(m[2], m[3]), d),
                                 Vec_div_t(Vec3_cross(m[3], m[1]), d),
                                 Vec_div_t(Vec3_cross(m[1], m[2]), d)))

Mat3_inverse(m) ==
    LET d == Mat3_determinant(m)
    IN  IF FuzzyEq(d, R(0)) THEN None
        ELSE Some(Mat3_transpose(
                 Mat3_from_cols(Vec_div_t(Vec3_cross(m[2], m[3]), d),
                                Vec_div_t(Vec3_cross(m[3], m[1]), d),
                                Vec_div_t(Vec3_cross(m[1], m[2]), d))))

Mat3_fuzzy_eq(m, other) ==
    Vec_fuzzy_eq(m[1], other[1]) /\ Vec_fuzzy_eq(m[2], other[2]) /\ Vec_fuzzy_eq(m[3], other[3])

Mat3_is_identity(m) == Mat3_fuzzy_eq(m, Mat3_identity)

\* an is_symmetric that compares exactly
Mat3_is_symmetric_exact(m) ==
    /\ E(m, 0, 1) = E(m, 1, 0)
    /\ E(m, 0, 2) = E(m, 2, 0)
    /\ E(m, 1, 2) = E(m, 2, 1)

Mat3_is_symmetric(m) ==
    /\ FuzzyEq(E(m, 0, 1), E(m, 1, 0))
    /\ FuzzyEq(E(m, 0, 2), E(m, 2, 0))
    /\ FuzzyEq(E(m, 1, 0), E(m, 0, 1))
    /\ FuzzyEq(E(m, 1, 2), E(m, 2, 1))
    /\ FuzzyEq(E(m, 2, 0), E(m, 0, 2))
    /\ FuzzyEq(E(m, 2, 1), E(m, 1, 2))

Mat3_is_invertible(m) == ~FuzzyEq(Mat3_determinant(m), R(0))

---------------------------------------------------------------------------
(* Mat4                                                                    *)

Vec4_new(x, y, z, w) == <<x, y, z, w>>

Mat4_from_cols(c0, c1, c2, c3) == <<c0, c1, c2, c3>>

Mat4_new(c0r0, c0r1, c0r2, c0r3, c1r0, c1r1, c1r2, c1r3, c2r0, c2r1, c2r2, c2r3, c3r0, c3r1, c3r2, c3r3) ==
    Mat4_from_cols(Vec4_new(c0r0, c0r1, c0r2, c0r3),
                   Vec4_new(c1r0, c1r1, c1r2, c1r3),
                   Vec4_new(c2r0, c2r1, c2r2, c2r3),
                   Vec4_new(c3r0, c3r1, c3r2, c3r3))

Mat4_from_Mat2(m) ==
    Mat4_new(E(m, 0, 0), E(m, 0, 1), R(0), R(0),
             E(m, 1, 0), E(m, 1, 1), R(0), R(0),
             R(0),       R(0),       R(1), R(0),
             R(0),       R(0),       R(0), R(1))

Mat4_from_Mat3(m) ==
    Mat4_new(E(m, 0, 0), E(m, 0, 1), E(m, 0, 2), R(0),
             E(m, 1, 0), E(m, 1, 1), E(m, 1, 2), R(0),
             E(m, 2, 0), E(m, 2, 1), E(m, 2, 2), R(0),
             R(0),       R(0),       R(0),       R(1))

\* an identity whose last column is zero
Mat4_identity_short ==
    Mat4_new(R(1), R(0), R(0), R(0),
             R(0), R(1), R(0), R(0),
             R(0), R(0), R(1), R(0),
             R(0), R(0), R(0), R(0))

Mat4_identity ==
    Mat4_new(R(1), R(0), R(0), R(0),
             R(0), R(1), R(0), R(0),
             R(0), R(0), R(1), R(0),
             R(0), R(0), R(0), R(1))

Mat4_zero ==
    Mat4_new(R(0), R(0), R(0), R(0),
             R(0), R(0), R(0), R(0),
             R(0), R(0), R(0), R(0),
             R(0), R(0), R(0), R(0))

Mat4_col(m, i) == m[i + 1]

Mat4_row(m, i) == Vec4_new(E(m, 0, i), E(m, 1, i), E(m, 2, i), E(m, 3, i))

Mat4_mul_t(m, value) ==
    Mat4_from_cols(Vec_mul_t(m[1], value), Vec_mul_t(m[2], value),
                   Vec_mul_t(m[3], value), Vec_mul_t(m[4], value))

Mat4_mul_v(m, vec) ==
    Vec4_new(Vec_dot(Mat4_row(m, 0), vec),
             Vec_dot(Mat4_row(m, 1), vec),
             Vec_dot(Mat4_row(m, 2), vec),
             Vec_dot(Mat4_row(m, 3), vec))

Mat4_add_m(m, other) ==
    Mat4_from_cols(Vec_add_v(m[1], other[1]), Vec_add_v(m[2], other[2]),
                   Vec_add_v(m[3], other[3]), Vec_add_v(m[4], other[4]))

Mat4_sub_m(m, other) ==
    Mat4_from_cols(Vec_sub_v(m[1], other[1]), Vec_sub_v(m[2], other[2]),
                   Vec_sub_v(m[3], other[3]), Vec_sub_v(m[4], other[4]))

\* mul_m whose last entry reads row 2 again
Mat4_mul_m_row_slip(m, other) ==
    Mat4_new(Vec_dot(Mat4_row(m, 0), Mat4_col(other, 0)), Vec_dot(Mat4_row(m, 1), Mat4_col(other, 0)), Vec_dot(Mat4_row(m, 2), Mat4_col(other, 0)), Vec_dot(Mat4_row(m, 3), Mat4_col(other, 0)),
             Vec_dot(Mat4_row(m, 0), Mat4_col(other, 1)), Vec_dot(Mat4_row(m, 1), Mat4_col(other, 1)), Vec_dot(Mat4_row(m, 2), Mat4_col(other, 1)), Vec_dot(Mat4_row(m, 3), Mat4_col(other, 1)),
             Vec_dot(Mat4_row(m, 0), Mat4_col(other, 2)), Vec_dot(Mat4_row(m, 1), Mat4_col(other, 2)), Vec_dot(Mat4_row(m, 2), Mat4_col(other, 2)), Vec_dot(Mat4_row(m, 3), Mat4_col(other, 2)),
             Vec_dot(Mat4_row(m, 0), Mat4_col(other, 3)), Vec_dot(Mat4_row(m, 1), Mat4_col(other, 3)), Vec_dot(Mat4_row(m, 2), Mat4_col(other, 3)), Vec_dot(Mat4_row(m, 2), Mat4_col(other, 3)))

Mat4_mul_m(m, other) ==
    Mat4_new(Vec_dot(Mat4_row(m, 0), Mat4_col(other, 0)), Vec_dot(Mat4_row(m, 1), Mat4_col(other, 0)), Vec_dot(Mat4_row(m, 2), Mat4_col(other, 0)), Vec_dot(Mat4_row(m, 3), Mat4_col(other, 0)),
             Vec_dot(Mat4_row(m, 0), Mat4_col(other, 1)), Vec_dot(Mat4_row(m, 1), Mat4_col(other, 1)), Vec_dot(Mat4_row(m, 2), Mat4_col(other, 1)), Vec_dot(Mat4_row(m, 3), Mat4_col(other, 1)),
             Vec_dot(Mat4_row(m, 0), Mat4_col(other, 2)), Vec_dot(Mat4_row(m, 1), Mat4_col(other, 2)), Vec_dot(Mat4_row(m, 2), Mat4_col(other, 2)), Vec_dot(Mat4_row(m, 3), Mat4_col(other, 2)),
             Vec_dot(Mat4_row(m, 0), Mat4_col(other, 3)), Vec_dot(Mat4_row(m, 1), Mat4_col(other, 3)), Vec_dot(Mat4_row(m, 2), Mat4_col(other, 3)), Vec_dot(Mat4_row(m, 3), Mat4_col(other, 3)))

\* a cofactor expansion whose last term has the sign of the third
Mat4_determinant_signs(m) ==
    LET t0 == Mul(E(m, 0, 0), Mat3_determinant(
                  Mat3_new(E(m, 1, 1), E(m, 2, 1), E(m, 3, 1),
                           E(m, 1, 2), E(m, 2, 2), E(m, 3, 2),
                           E(m, 1, 3), E(m, 2, 3), E(m, 3, 3))))
        t1 == Mul(E(m, 1, 0), Mat3_determinant(
                  Mat3_new(E(m, 0, 1), E(m, 2, 1), E(m, 3, 1),
                           E(m, 0, 2), E(m, 2, 2), E(m, 3, 2),
                           E(m, 0, 3), E(m, 2, 3), E(m, 3, 3))))
        t2 == Mul(E(m, 2, 0), Mat3_determinant(
                  Mat3_new(E(m, 0, 1), E(m, 1, 1), E(m, 3, 1),
                           E(m, 0, 2), E(m, 1, 2), E(m, 3, 2),
                           E(m, 0, 3), E(m, 1, 3), E(m, 3, 3))))
        t3 == Mul(E(m, 3, 0), Mat3_determinant(
                  Mat3_new(E(m, 0, 1), E(m, 1, 1), E(m, 2, 1),
                           E(m, 0, 2), E(m, 1, 2), E(m, 2, 2),
                           E(m, 0, 3), E(m, 1, 3), E(m, 2, 3))))
    IN  Add(Add(Sub(t0, t1), t2), t3)

Mat4_determinant(m) ==
    LET t0 == Mul(E(m, 0, 0), Mat3_determinant(
                  Mat3_new(E(m, 1, 1), E(m, 2, 1), E(m, 3, 1),
                           E(m, 1, 2), E(m, 2, 2), E(m, 3, 2),
                           E(m, 1, 3), E(m, 2, 3), E(m, 3, 3))))
        t1 == Mul(E(m, 1, 0), Mat3_determinant(
                  Mat3_new(E(m, 0, 1), E(m, 2, 1), E(m, 3, 1),
                           E(m, 0, 2), E(m, 2, 2), E(m, 3, 2),
                           E(m, 0, 3), E(m, 2, 3), E(m, 3, 3))))
        t2 == Mul(E(m, 2, 0), Mat3_determinant(
                  Mat3_new(E(m, 0, 1), E(m, 1, 1), E(m, 3, 1),
                           E(m, 0, 2), E(m, 1, 2), E(m, 3, 2),
                           E(m, 0, 3), E(m, 1, 3), E(m, 3, 3))))
        t3 == Mul(E(m, 3, 0), Mat3_determinant(
                  Mat3_new(E(m, 0, 1), E(m, 1, 1), E(m, 2, 1),
                           E(m, 0, 2), E(m, 1, 2), E(m, 2, 2),
                           E(m, 0, 3), E(m, 1, 3), E(m, 2, 3))))
    IN  Sub(Add(Sub(t0, t1), t2), t3)

Mat4_trace(m) == Add(Add(Add(E(m, 0, 0), E(m, 1, 1)), E(m, 2, 2)), E(m, 3, 3))

Mat4_transpose(m) ==
    Mat4_new(E(m, 0, 0), E(m, 1, 0), E(m, 2, 0), E(m, 3, 0),
             E(m, 0, 1), E(m, 1, 1), E(m, 2, 1), E(m, 3, 1),
             E(m, 0, 2), E(m, 1, 2), E(m, 2, 2), E(m, 3, 2),
             E(m, 0, 3), E(m, 1, 3), E(m, 2, 3), E(m, 3, 3))

\* a dot that leaves out the transpose
Mat4_dot_plain(m, other) == Mat4_trace(Mat4_mul_m(other, m))

Mat4_dot(m, other) == Mat4_trace(Mat4_mul_m(Mat4_transpose(other), m))

Mat4_fuzzy_eq(m, other) ==
    /\ Vec_fuzzy_eq(m[1], other[1])
    /\ Vec_fuzzy_eq(m[2], other[2])
    /\ Vec_fuzzy_eq(m[3], other[3])
    /\ Vec_fuzzy_eq(m[4], other[4])

Mat4_is_identity(m) == Mat4_fuzzy_eq(m, Mat4_identity)

Mat4_is_symmetric(m) ==
    /\ FuzzyEq(E(m, 0, 1), E(m, 1, 0))
    /\ FuzzyEq(E(m, 0, 2), E(m, 2, 0))
    /\ FuzzyEq(E(m, 0, 3), E(m, 3, 0))
    /\ FuzzyEq(E(m, 1, 0), E(m, 0, 1))
    /\ FuzzyEq(E(m, 1, 2), E(m, 2, 1))
    /\ FuzzyEq(E(m, 1, 3), E(m, 3, 1))
    /\ FuzzyEq(E(m, 2, 0), E(m, 0, 2))
    /\ FuzzyEq(E(m, 2, 1), E(m, 1, 2))
    /\ FuzzyEq(E(m, 2, 3), E(m, 3, 2))
    /\ FuzzyEq(E(m, 3, 0), E(m, 0, 3))
    /\ FuzzyEq(E(m, 3, 1), E(m, 1, 3))
    /\ FuzzyEq(E(m, 3, 2), E(m, 2, 3))

Mat4_is_invertible(m) == ~FuzzyEq(Mat4_determinant(m), R(0))

---------------------------------------------------------------------------
(* col_mut: a reference to column i, or the fatal failure and its message  *)

ColRef(i) == [ok |-> TRUE, col |-> i, msg |-> ""]

Failure(text) == [ok |-> FALSE, col |-> -1, msg |-> text]

Mat2_col_mut(i) ==
    CASE i = 0 -> ColRef(0)
      [] i = 1 -> ColRef(1)
      [] OTHER -> Failure("index out of bounds: expected an index from 0 to 1, but found " \o ToString(i))

\* a col_mut that clamps an index past the end to the last column
Mat3_col_mut_clamped(i) ==
    CASE i = 0 -> ColRef(0)
      [] i = 1 -> ColRef(1)
      [] OTHER -> ColRef(2)

Mat3_col_mut(i) ==
    CASE i = 0 -> ColRef(0)
      [] i = 1 -> ColRef(1)
      [] i = 2 -> ColRef(2)
      [] OTHER -> Failure("index out of bounds: expected an index from 0 to 2, but found " \o ToString(i))

Mat4_col_mut(i) ==
    CASE i = 0 -> ColRef(0)
      [] i = 1 -> ColRef(1)
      [] i = 2 -> ColRef(2)
      [] i = 3 -> ColRef(3)
      [] OTHER -> Failure("index out of bounds: expected an index from 0 to 3, but found " \o ToString(i))

(* The outcome of an in-place operation: the matrix it leaves, and the     *)
(* failure message when the task failed.                                   *)
Done(m) == [ok |-> TRUE, m |-> m, msg |-> ""]

Failed(m, text) == [ok |-> FALSE, m |-> m, msg |-> text]

\* util::swap(x, y) on the columns two references name (x = y: no change)
SwapRefs(m, ra, rb) ==
    IF ~ra.ok THEN Failed(m, ra.msg)
    ELSE IF ~rb.ok THEN Failed(m, rb.msg)
    ELSE Done([m EXCEPT ![ra.col + 1] = m[rb.col + 1], ![rb.col + 1] = m[ra.col + 1]])

\* col_mut(i).<op>_self(..): column i replaced by v
PutCol(m, ref, v) == SetCol(m, ref.col, v)

---------------------------------------------------------------------------
(* MutableMatrix for Mat2                                                  *)

Mat2_swap_cols(m, a, b) == SwapRefs(m, Mat2_col_mut(a), Mat2_col_mut(b))

Mat2_swap_rows(m, a, b) ==
    Mat2_from_cols(Vec_swap(m[1], a, b), Vec_swap(m[2], a, b))

Mat2_set(m, other) == other

Mat2_to_identity(m) == Mat2_identity

Mat2_to_zero(m) == Mat2_zero

Mat2_mul_self_t(m, value) ==
    LET m0 == PutCol(m,  Mat2_col_mut(0), Vec_mul_t(m[1], value))
    IN        PutCol(m0, Mat2_col_mut(1), Vec_mul_t(m0[2], value))

Mat2_add_self_m(m, other) ==
    LET m0 == PutCol(m,  Mat2_col_mut(0), Vec_add_v(m[1], other[1]))
    IN        PutCol(m0, Mat2_col_mut(1), Vec_add_v(m0[2], other[2]))

Mat2_sub_self_m(m, other) ==
    LET m0 == PutCol(m,  Mat2_col_mut(0), Vec_sub_v(m[1], other[1]))
    IN        PutCol(m0, Mat2_col_mut(1), Vec_sub_v(m0[2], other[2]))

\* an invert_self that falls back to the identity instead of failing
Mat2_invert_self_fallback(m) ==
    LET r == Mat2_inverse(m)
    IN  IF IsSome(r) THEN Done(Unwrap(r))
        ELSE Done(Mat2_identity)

Mat2_invert_self(m) ==
    LET r == Mat2_inverse(m)
    IN  IF IsSome(r) THEN Done(Unwrap(r))
        ELSE Failed(m, "Couldn't invert the matrix!")

Mat2_transpose_self(m) ==
    LET s1 == SwapE(m,  0, 1, 1, 0)
    IN        SwapE(s1, 1, 0, 0, 1)

---------------------------------------------------------------------------
(* MutableMatrix for Mat3                                                  *)

Mat3_swap_cols(m, a, b) == SwapRefs(m, Mat3_col_mut(a), Mat3_col_mut(b))

Mat3_swap_rows(m, a, b) ==
    Mat3_from_cols(Vec_swap(m[1], a, b), Vec_swap(m[2], a, b), Vec_swap(m[3], a, b))

Mat3_set(m, other) == other

Mat3_to_identity(m) == Mat3_identity

Mat3_to_zero(m) == Mat3_zero

Mat3_mul_self_t(m, value) ==
    LET m0 == PutCol(m,  Mat3_col_mut(0), Vec_mul_t(m[1], value))
        m1 == PutCol(m0, Mat3_col_mut(1), Vec_mul_t(m0[2], value))
    IN        PutCol(m1, Mat3_col_mut(2), Vec_mul_t(m1[3], value))

Mat3_add_self_m(m, other) ==
    LET m0 == PutCol(m,  Mat3_col_mut(0), Vec_add_v(m[1], other[1]))
        m1 == PutCol(m0, Mat3_col_mut(1), Vec_add_v(m0[2], other[2]))
    IN        PutCol(m1, Mat3_col_mut(2), Vec_add_v(m1[3], other[3]))

\* a sub_self_m that leaves the last column alone
Mat3_sub_self_m_short(m, other) ==
    LET m0 == PutCol(m,  Mat3_col_mut(0), Vec_sub_v(m[1], other[1]))
    IN        PutCol(m0, Mat3_col_mut(1), Vec_sub_v(m0[2], other[2]))

Mat3_sub_self_m(m, other) ==
    LET m0 == PutCol(m,  Mat3_col_mut(0), Vec_sub_v(m[1], other[1]))
        m1 == PutCol(m0, Mat3_col_mut(1), Vec_sub_v(m0[2], other[2]))
    IN        PutCol(m1, Mat3_col_mut(2), Vec_sub_v(m1[3], other[3]))

Mat3_invert_self(m) ==
    LET r == Mat3_inverse(m)
    IN  IF IsSome(r) THEN Done(Unwrap(r))
        ELSE Failed(m, "Couldn't invert the matrix!")

Mat3_transpose_self(m) ==
    LET s1 == SwapE(m,  0, 1, 1, 0)
        s2 == SwapE(s1, 0, 2, 2, 0)
        s3 == SwapE(s2, 1, 0, 0, 1)
        s4 == SwapE(s3, 1, 2, 2, 1)
        s5 == SwapE(s4, 2, 0, 0, 2)
    IN        SwapE(s5, 2, 1, 1, 2)

---------------------------------------------------------------------------
(* MutableMatrix for Mat4                                                  *)

Mat4_swap_cols(m, a, b) == SwapRefs(m, Mat4_col_mut(a), Mat4_col_mut(b))

\* a swap_rows that leaves the last column alone
Mat4_swap_rows_short(m, a, b) ==
    Mat4_from_cols(Vec_swap(m[1], a, b), Vec_swap(m[2], a, b),
                   Vec_swap(m[3], a, b), m[4])

Mat4_swap_rows(m, a, b) ==
    Mat4_from_cols(Vec_swap(m[1], a, b), Vec_swap(m[2], a, b),
                   Vec_swap(m[3], a, b), Vec_swap(m[4], a, b))

Mat4_set(m, other) == other

Mat4_to_identity(m) == Mat4_identity

Mat4_to_zero(m) == Mat4_zero

Mat4_mul_self_t(m, value) ==
    LET m0 == PutCol(m,  Mat4_col_mut(0), Vec_mul_t(m[1], value))
        m1 == PutCol(m0, Mat4_col_mut(1), Vec_mul_t(m0[2], value))
        m2 == PutCol(m1, Mat4_col_mut(2), Vec_mul_t(m1[3], value))
    IN        PutCol(m2, Mat4_col_mut(3), Vec_mul_t(m2[4], value))

Mat4_add_self_m(m, other) ==
    LET m0 == PutCol(m,  Mat4_col_mut(0), Vec_add_v(m[1], other[1]))
        m1 == PutCol(m0, Mat4_col_mut(1), Vec_add_v(m0[2], other[2]))
        m2 == PutCol(m1, Mat4_col_mut(2), Vec_add_v(m1[3], other[3]))
    IN        PutCol(m2, Mat4_col_mut(3), Vec_add_v(m2[4], other[4]))

Mat4_sub_self_m(m, other) ==
    LET m0 == PutCol(m,  Mat4_col_mut(0), Vec_sub_v(m[1], other[1]))
        m1 == PutCol(m0, Mat4_col_mut(1), Vec_sub_v(m0[2], other[2]))
        m2 == PutCol(m1, Mat4_col_mut(2), Vec_sub_v(m1[3], other[3]))
    IN        PutCol(m2, Mat4_col_mut(3), Vec_sub_v(m2[4], other[4]))

Mat4_transpose_self(m) ==
    LET s1  == SwapE(m,   0, 1, 1, 0)
        s2  == SwapE(s1,  0, 2, 2, 0)
        s3  == SwapE(s2,  0, 3, 3, 0)
        s4  == SwapE(s3,  1, 0, 0, 1)
        s5  == SwapE(s4,  1, 2, 2, 1)
        s6  == SwapE(s5,  1, 3, 3, 1)
        s7  == SwapE(s6,  2, 0, 0, 2)
        s8  == SwapE(s7,  2, 1, 1, 2)
        s9  == SwapE(s8,  2, 3, 3, 2)
        s10 == SwapE(s9,  3, 0, 0, 3)
        s11 == SwapE(s10, 3, 1, 1, 3)
    IN         SwapE(s11, 3, 2, 2, 3)

---------------------------------------------------------------------------
(* Mat4::inverse: Gauss-Jordan elimination on [A | I].  g = [A, I] is the  *)
(* pair of working matrices; the operators below are the statements of    *)
(* the loop body, and the loops that run them.                             *)

\* the pivot search: i1 = j; for i in j+1..3: if |A[j][i]| > |A[j][i1]| then i1 = i
RECURSIVE GJ_select_from(_, _, _, _)
GJ_select_from(A, j, i, i1) ==
    IF i >= 4 THEN i1
    ELSE GJ_select_from(A, j, i + 1,
                        IF Gt(abs(E(A, j, i)), abs(E(A, j, i1))) THEN i ELSE i1)

GJ_select(A, j) == GJ_select_from(A, j, j + 1, j)

\* A.swap_cols(i1, j); I.swap_cols(i1, j)
GJ_swap(g, i1, j) ==
    [A |-> Mat4_swap_cols(g.A, i1, j).m, I |-> Mat4_swap_cols(g.I, i1, j).m]

\* the divisor of the scaling step
GJ_divisor(g, j) == E(g.A, j, j)

\* the scaling with A divided first, I then by the new A[j][j]
GJ_scale_late(g, j) ==
    LET A1 == PutCol(g.A, Mat4_col_mut(j), Vec_div_t(g.A[j + 1], E(g.A, j, j)))
        I1 == PutCol(g.I, Mat4_col_mut(j), Vec_div_t(g.I[j + 1], E(A1, j, j)))
    IN  [A |-> A1, I |-> I1]

\* I.col_mut(j).div_self_t(&A[j][j]); A.col_mut(j).div_self_t(&A[j][j])
GJ_scale(g, j) ==
    LET I1 == PutCol(g.I, Mat4_col_mut(j), Vec_div_t(g.I[j + 1], E(g.A, j, j)))
        A1 == PutCol(g.A, Mat4_col_mut(j), Vec_div_t(g.A[j + 1], E(g.A, j, j)))
    IN  [A |-> A1, I |-> I1]

\* one iteration i of the elimination loop
GJ_elim(g, j, i) ==
    IF i # j
    THEN LET I1 == PutCol(g.I, Mat4_col_mut(i),
                          Vec_sub_v(g.I[i + 1], Vec_mul_t(g.I[j + 1], E(g.A, i, j))))
             A1 == PutCol(g.A, Mat4_col_mut(i),
                          Vec_sub_v(g.A[i + 1], Vec_mul_t(g.A[j + 1], E(g.A, i, j))))
         IN  [A |-> A1, I |-> I1]
    ELSE g

RECURSIVE GJ_elim_from(_, _, _)
GJ_elim_from(g, j, i) ==
    IF i >= 4 THEN g ELSE GJ_elim_from(GJ_elim(g, j, i), j, i + 1)

\* one pass j of the outer loop
GJ_pivot(g, j) ==
    GJ_elim_from(GJ_scale(GJ_swap(g, GJ_select(g.A, j), j), j), j, 0)

\* for j in 0..3 (each pass is evaluated before the next one starts)
RECURSIVE GJ_from(_, _)
GJ_from(g, j) ==
    IF j >= 4 THEN g
    ELSE LET g1 == GJ_pivot(g, j)
         IN  IF g1 = g1 THEN GJ_from(g1, j + 1) ELSE g

Mat4_inverse(m) ==
    LET d == Mat4_determinant(m)
    IN  IF FuzzyEq(d, R(0)) THEN None
        ELSE Some(GJ_from([A |-> m, I |-> Mat4_identity], 0).I)

Mat4_invert_self(m) ==
    LET r == Mat4_inverse(m)
    IN  IF IsSome(r) THEN Done(Unwrap(r))
        ELSE Failed(m, "Couldn't invert the matrix!")

---------------------------------------------------------------------------
(* The Matrix and MutableMatrix traits: a call on a matrix of dimension d  *)
(* runs the implementation of its type.                                    *)

identity(d) == CASE d = 2 -> Mat2_identity [] d = 3 -> Mat3_identity [] d = 4 -> Mat4_identity

zero(d) == CASE d = 2 -> Mat2_zero [] d = 3 -> Mat3_zero [] d = 4 -> Mat4_zero

mul_t(d, m, value) ==
    CASE d = 2 -> Mat2_mul_t(m, value) [] d = 3 -> Mat3_mul_t(m, value) [] d = 4 -> Mat4_mul_t(m, value)

add_m(d, m, o) ==
    CASE d = 2 -> Mat2_add_m(m, o) [] d = 3 -> Mat3_add_m(m, o) [] d = 4 -> Mat4_add_m(m, o)

sub_m(d, m, o) ==
    CASE d = 2 -> Mat2_sub_m(m, o) [] d = 3 -> Mat3_sub_m(m, o) [] d = 4 -> Mat4_sub_m(m, o)

mul_m(d, m, o) ==
    CASE d = 2 -> Mat2_mul_m(m, o) [] d = 3 -> Mat3_mul_m(m, o) [] d = 4 -> Mat4_mul_m(m, o)

determinant(d, m) ==
    CASE d = 2 -> Mat2_determinant(m) [] d = 3 -> Mat3_determinant(m) [] d = 4 -> Mat4_determinant(m)

inverse(d, m) ==
    CASE d = 2 -> Mat2_inverse(m) [] d = 3 -> Mat3_inverse(m) [] d = 4 -> Mat4_inverse(m)

transpose(d, m) ==
    CASE d = 2 -> Mat2_transpose(m) [] d = 3 -> Mat3_transpose(m) [] d = 4 -> Mat4_transpose(m)

fuzzy_eq(d, m, o) ==
    CASE d = 2 -> Mat2_fuzzy_eq(m, o) [] d = 3 -> Mat3_fuzzy_eq(m, o) [] d = 4 -> Mat4_fuzzy_eq(m, o)

is_invertible(d, m) ==
    CASE d = 2 -> Mat2_is_invertible(m) [] d = 3 -> Mat3_is_invertible(m) [] d = 4 -> Mat4_is_invertible(m)

col_mut(d, i) ==
    CASE d = 2 -> Mat2_col_mut(i) [] d = 3 -> Mat3_col_mut(i) [] d = 4 -> Mat4_col_mut(i)

swap_cols(d, m, a, b) ==
    CASE d = 2 -> Mat2_swap_cols(m, a, b) [] d = 3 -> Mat3_swap_cols(m, a, b) [] d = 4 -> Mat4_swap_cols(m, a, b)

swap_rows(d, m, a, b) ==
    CASE d = 2 -> Mat2_swap_rows(m, a, b) [] d = 3 -> Mat3_swap_rows(m, a, b) [] d = 4 -> Mat4_swap_rows(m, a, b)

set(d, m, o) ==
    CASE d = 2 -> Mat2_set(m, o) [] d = 3 -> Mat3_set(m, o) [] d = 4 -> Mat4_set(m, o)

to_identity(d, m) ==
    CASE d = 2 -> Mat2_to_identity(m) [] d = 3 -> Mat3_to_identity(m) [] d = 4 -> Mat4_to_identity(m)

to_zero(d, m) ==
    CASE d = 2 -> Mat2_to_zero(m) [] d = 3 -> Mat3_to_zero(m) [] d = 4 -> Mat4_to_zero(m)

mul_self_t(d, m, value) ==
    CASE d = 2 -> Mat2_mul_self_t(m, value) [] d = 3 -> Mat3_mul_self_t(m, value) [] d = 4 -> Mat4_mul_self_t(m, value)

add_self_m(d, m, o) ==
    CASE d = 2 -> Mat2_add_self_m(m, o) [] d = 3 -> Mat3_add_self_m(m, o) [] d = 4 -> Mat4_add_self_m(m, o)

sub_self_m(d, m, o) ==
    CASE d = 2 -> Mat2_sub_self_m(m, o) [] d = 3 -> Mat3_sub_self_m(m, o) [] d = 4 -> Mat4_sub_self_m(m, o)

invert_self(d, m) ==
    CASE d = 2 -> Mat2_invert_self(m) [] d = 3 -> Mat3_invert_self(m) [] d = 4 -> Mat4_invert_self(m)

transpose_self(d, m) ==
    CASE d = 2 -> Mat2_transpose_self(m) [] d = 3 -> Mat3_transpose_self(m) [] d = 4 -> Mat4_transpose_self(m)

---------------------------------------------------------------------------
(* Inputs                                                                  *)

Tiny == <<1, 1024>>

\* how many sample matrices of each dimension a caller starts from
NumSamples == 2

\* how many calls a caller makes on its matrix
MaxCalls == 2

Samples2 ==
    << Mat2_new(R(1), R(2), R(3), R(4)),
       Mat2_new(Tiny, R(0), R(2), Tiny),
       Mat2_new(R(1), R(2), R(2), R(4)),
       Mat2_new(R(0), R(1), R(-1), R(0)),
       Mat2_new(R(4), R(0), R(0), R(4)) >>

Samples3 ==
    << Mat3_new(R(1), R(2), R(3), R(4), R(5), R(6), R(7), R(8), R(10)),
       Mat3_new(Tiny, R(0), R(0), R(2), Tiny, R(0), R(0), R(0), R(1)),
       Mat3_new(R(1), R(2), R(3), R(4), R(5), R(6), R(7), R(8), R(9)),
       Mat3_new(R(0), R(1), R(0), R(0), R(0), R(1), R(1), R(0), R(0)),
       Mat3_new(R(2), R(0), R(0), R(0), R(2), R(0), R(0), R(0), R(2)) >>

Samples4 ==
    << Mat4_new(R(2), R(3), R(1), R(2),     R(3), R(2), R(3), R(0),
                R(1), R(1), R(0), R(1),     R(2), R(2), R(1), R(1)),
       Mat4_new(Tiny, R(0), R(0), R(0),     R(2), Tiny, R(0), R(0),
                R(0), R(0), R(1), R(0),     R(0), R(0), R(0), R(1)),
       Mat4_new(R(1), R(2), R(0), R(0),     R(0), R(1), R(0), R(0),
                R(0), R(0), R(1), R(0),     R(0), R(0), R(0), R(1)),
       Mat4_new(R(2), R(1), R(0), R(1),     R(1), R(3), R(1), R(0),
                R(0), R(1), R(2), R(1),     R(1), R(1), R(1), R(1)),
       Mat4_new(R(2), R(0), R(0), R(0),     R(0), R(2), R(0), R(0),
                R(0), R(0), R(2), R(0),     R(0), R(0), R(0), R(2)) >>

SampleList(d) == CASE d = 2 -> Samples2 [] d = 3 -> Samples3 [] d = 4 -> Samples4

Samples(d) == {SampleList(d)[k] : k \in 1..NumSamples}

Dims == {2, 3, 4}

\* the caller inverts a sample, or a matrix whose entries n/d have
\* |n| and d at most MaxMag (the arithmetic of the model is exact)
MaxMag == 64

SmallEntries(m) ==
    \A c \in 1..Len(m) : \A r \in 1..Len(m[c]) :
        IAbs(m[c][r][1]) <= MaxMag /\ m[c][r][2] <= MaxMag

\* the factors a caller scales by
Factors == {R(2), <<-1, 2>>}

---------------------------------------------------------------------------
(* State                                                                   *)

VARIABLES
    dim,      \* the dimension N of the caller's matrices: Mat2, Mat3 or Mat4
    self,     \* the matrix the caller mutates in place
    other,    \* the matrix the caller passes by reference as `other`
    before,   \* self when the last call began
    call,     \* the last call: its name and arguments
    ret,      \* what the last call returned
    failed,   \* "" while the task runs, the failure message once it failed
    shadow,   \* what the pure counterparts of the in-place arithmetic give
    ncalls,   \* calls made so far
    gj        \* Mat4::inverse in progress: its locals and position

vars == <<dim, self, other, before, call, ret, failed, shadow, ncalls, gj>>

Idle == [pc |-> "idle"]

\* the value of a call that returns (): no column is referred to
Unit == [ok |-> TRUE, col |-> -1, msg |-> "()"]

Init ==
    /\ dim \in Dims
    /\ self \in Samples(dim)
    /\ other \in Samples(dim)
    /\ before = self
    /\ call = [op |-> "new"]
    /\ ret = Unit
    /\ failed = ""
    /\ shadow = self
    /\ ncalls = 0
    /\ gj = Idle

Running == failed = "" /\ ncalls < MaxCalls

\* a call that returns: self becomes m, the pure counterpart gives s
Returns(c, m, s, r) ==
    /\ before' = self
    /\ call' = c
    /\ self' = m
    /\ shadow' = s
    /\ ret' = r
    /\ ncalls' = ncalls + 1
    /\ UNCHANGED <<dim, other, failed, gj>>

\* a call that fails: the task ends with the message, self is left as m
Fails(c, m, text) ==
    /\ before' = self
    /\ call' = c
    /\ self' = m
    /\ failed' = text
    /\ ret' = Failure(text)
    /\ ncalls' = ncalls + 1
    /\ UNCHANGED <<dim, other, shadow, gj>>

\* a call with no pure counterpart among the arithmetic operations:
\* the shadow follows the matrix
Outcome(c, o) ==
    IF o.ok THEN Returns(c, o.m, o.m, Unit) ELSE Fails(c, o.m, o.msg)

ColMut ==
    /\ Running
    /\ \E i \in 0..(dim + 1) :
         LET r == col_mut(dim, i)
             c == [op |-> "col_mut", i |-> i]
         IN  IF r.ok THEN Returns(c, self, self, r) ELSE Fails(c, self, r.msg)

SwapCols ==
    /\ Running
    /\ \E a \in 0..dim, b \in 0..dim :
         Outcome([op |-> "swap_cols", a |-> a, b |-> b], swap_cols(dim, self, a, b))

SwapRows ==
    /\ Running
    /\ \E a \in 0..(dim - 1), b \in 0..(dim - 1) :
         Outcome([op |-> "swap_rows", a |-> a, b |-> b], Done(swap_rows(dim, self, a, b)))

Set ==
    /\ Running
    /\ Returns([op |-> "set"], set(dim, self, other), other, Unit)

ToIdentity ==
    /\ Running
    /\ Returns([op |-> "to_identity"], to_identity(dim, self), identity(dim), Unit)

ToZero ==
    /\ Running
    /\ Returns([op |-> "to_zero"], to_zero(dim, self), zero(dim), Unit)

MulSelfT ==
    /\ Running
    /\ \E v \in Factors :
         Returns([op |-> "mul_self_t", value |-> v], mul_self_t(dim, self, v),
                 mul_t(dim, shadow, v), Unit)

AddSelfM ==
    /\ Running
    /\ Returns([op |-> "add_self_m"], add_self_m(dim, self, other),
               add_m(dim, shadow, other), Unit)

SubSelfM ==
    /\ Running
    /\ Returns([op |-> "sub_self_m"], sub_self_m(dim, self, other),
               sub_m(dim, shadow, other), Unit)

InvertSelf ==
    /\ Running
    /\ self \in Samples(dim) \/ SmallEntries(self)
    /\ Outcome([op |-> "invert_self"], invert_self(dim, self))

TransposeSelf ==
    /\ Running
    /\ Outcome([op |-> "transpose_self"], Done(transpose_self(dim, self)))

Next ==
    \/ ColMut
    \/ SwapCols
    \/ SwapRows
    \/ Set
    \/ ToIdentity
    \/ ToZero
    \/ MulSelfT
    \/ AddSelfM
    \/ SubSelfM
    \/ InvertSelf
    \/ TransposeSelf

Spec == Init /\ [][Next]_vars

---------------------------------------------------------------------------
(* Claims about the in-place operations (specification Spec)               *)

InRange(i) == 0 <= i /\ i < dim

\* C3: after transpose_self() the matrix is transpose() of its value before
\* the call: element (c, r) after equals element (r, c) before.
C3_TransposeSelfTransposes ==
    call.op = "transpose_self" =>
        /\ self = transpose(dim, before)
        /\ \A c \in 0..(dim - 1), r \in 0..(dim - 1) : E(self, c, r) = E(before, r, c)

\* C7: invert_self() on a matrix that is not invertible fails and leaves no
\* fallback value behind; on an invertible matrix it returns and leaves the
\* Some-value of inverse() of the value before the call.
C7_InvertSelf ==
    call.op = "invert_self" =>
        IF is_invertible(dim, before)
        THEN failed = "" /\ ret = Unit /\ self = Unwrap(inverse(dim, before))
        ELSE failed = "Couldn't invert the matrix!" /\ self = before /\ ~Running

C7_Witness ==
    /\ call.op = "invert_self"
    /\ dim = 4
    /\ failed # ""
    /\ determinant(dim, before) # R(0)

\* C8: col_mut(i) returns column i for 0 <= i < N; for i >= N it fails with
\* a message giving the range 0 to N-1 and the index i, and returns nothing.
C8_ColMut ==
    call.op = "col_mut" =>
        IF InRange(call.i)
        THEN failed = "" /\ ret = ColRef(call.i)
        ELSE /\ failed = "index out of bounds: expected an index from 0 to "
                         \o ToString(dim - 1) \o ", but found " \o ToString(call.i)
             /\ ~ret.ok
             /\ self = before

C8_Witness ==
    /\ call.op = "col_mut"
    /\ dim = 3
    /\ call.i = 4
    /\ failed # ""

\* C9: for in-range a, b, swap_cols(a, b) exchanges columns a and b and
\* swap_rows(a, b) exchanges components a and b of every column; every
\* other entry is unchanged, a = b changes nothing, and a second call with
\* the same arguments restores the matrix.
C9_Swaps ==
    /\ (call.op = "swap_cols" /\ InRange(call.a) /\ InRange(call.b)) =>
          /\ failed = ""
          /\ \A c \in 0..(dim - 1) :
                self[c + 1] = IF c = call.a THEN before[call.b + 1]
                              ELSE IF c = call.b THEN before[call.a + 1]
                              ELSE before[c + 1]
          /\ call.a = call.b => self = before
          /\ swap_cols(dim, self, call.a, call.b) = Done(before)
    /\ call.op = "swap_rows" =>
          /\ failed = ""
          /\ \A c \in 0..(dim - 1), r \in 0..(dim - 1) :
                E(self, c, r) = IF r = call.a THEN E(before, c, call.b)
                                ELSE IF r = call.b THEN E(before, c, call.a)
                                ELSE E(before, c, r)
          /\ call.a = call.b => self = before
          /\ swap_rows(dim, self, call.a, call.b) = before

C9_Witness ==
    /\ call.op = "swap_rows"
    /\ dim = 4
    /\ call.a = 1 /\ call.b = 3
    /\ self # before
    /\ ncalls = 2

\* C10: after any sequence of set, to_identity, to_zero, mul_self_t,
\* add_self_m and sub_self_m the matrix equals what the pure counterparts
\* (other, identity(), zero(), mul_t, add_m, sub_m) give in the same order,
\* and the argument matrix is never modified.
C10_InPlaceMatchesPure == [](self = shadow) /\ [][other' = other]_vars

C10_Witness ==
    /\ call.op = "sub_self_m"
    /\ ncalls = 2
    /\ dim = 4
    /\ before = Mat4_mul_t(Samples4[1], <<-1, 2>>)
    /\ other = Samples4[2]
    /\ self = Mat4_sub_m(before, other)

---------------------------------------------------------------------------
(* Calls of inverse(): the closed forms of Mat2 and Mat3 return in one     *)
(* step; the loop of Mat4::inverse runs statement by statement in gj.      *)

\* the scalars the input matrices are built from
ScalarList == <<R(0), R(1), R(-1), R(2), Tiny, R(3)>>

NumScalars == 5

Scalars == {ScalarList[k] : k \in 1..NumScalars}

Vec3List ==
    <<Vec3_new(R(1), R(0), R(0)), Vec3_new(R(0), R(1), R(0)), Vec3_new(R(0), R(0), R(1)),
      Vec3_new(R(1), R(2), R(0)), Vec3_new(Tiny, R(0), R(0)), Vec3_new(R(0), Tiny, R(0)),
      Vec3_new(R(2), R(-1), R(1)), Vec3_new(R(1), R(1), R(1)), Vec3_new(R(0), R(1), R(2))>>

NumVec3 == 8

Vecs3 == {Vec3List[k] : k \in 1..NumVec3}

Vec4List ==
    <<Vec4_new(R(1), R(2), R(0), R(0)), Vec4_new(R(0), R(1), R(0), R(0)),
      Vec4_new(R(0), R(0), R(1), R(0)), Vec4_new(R(0), R(0), R(0), R(1)),
      Vec4_new(R(2), R(3), R(1), R(2)), Vec4_new(R(1), R(0), R(0), R(0))>>

NumVec4 == 5

Vecs4 == {Vec4List[k] : k \in 1..NumVec4}

Inputs2 == {Mat2_new(a, b, c, d) : a \in Scalars, b \in Scalars, c \in Scalars, d \in Scalars}

Inputs3 == {Mat3_from_cols(a, b, c) : a \in Vecs3, b \in Vecs3, c \in Vecs3}

Inputs4 ==
    {Mat4_from_cols(a, b, c, d) : a \in Vecs4, b \in Vecs4, c \in Vecs4, d \in Vecs4}
    \cup {Mat4_from_Mat3(m) : m \in Inputs3}
    \cup {Mat4_from_Mat2(m) : m \in Inputs2}

Inputs(d) == CASE d = 2 -> Inputs2 [] d = 3 -> Inputs3 [] d = 4 -> Inputs4

\* no value returned yet / the value a call returned
Pending == <<>>

Returned(v) == <<v>>

InitInverse ==
    /\ dim \in Dims
    /\ self \in Inputs(dim)
    /\ other = self
    /\ before = self
    /\ call = [op |-> "new"]
    /\ ret = Pending
    /\ failed = ""
    /\ shadow = self
    /\ ncalls = 0
    /\ gj = Idle

\* Mat2::inverse and Mat3::inverse
InverseClosed ==
    /\ call.op = "new"
    /\ dim \in {2, 3}
    /\ call' = [op |-> "inverse"]
    /\ ret' = Returned(inverse(dim, self))
    /\ ncalls' = ncalls + 1
    /\ UNCHANGED <<dim, self, other, before, failed, shadow, gj>>

\* Mat4::inverse up to the loop: the determinant test, A = *self, I = identity
InverseStart ==
    /\ call.op = "new"
    /\ dim = 4
    /\ call' = [op |-> "inverse"]
    /\ ncalls' = ncalls + 1
    /\ IF FuzzyEq(Mat4_determinant(self), R(0))
       THEN /\ ret' = Returned(None)
            /\ gj' = [pc |-> "none"]
       ELSE /\ ret' = ret
            /\ gj' = [pc |-> "select", j |-> 0, i1 |-> 0, i |-> 0,
                      A |-> self, I |-> Mat4_identity, divisors |-> <<>>]
    /\ UNCHANGED <<dim, self, other, before, failed, shadow>>

GJStep(g) ==
    /\ gj' = g
    /\ UNCHANGED <<dim, self, other, before, call, ret, failed, shadow, ncalls>>

\* the pivot search of pass j
GJSelect ==
    /\ gj.pc = "select"
    /\ GJStep([gj EXCEPT !.pc = "swap", !.i1 = GJ_select(gj.A, gj.j)])

\* A.swap_cols(i1, j); I.swap_cols(i1, j)
GJSwap ==
    /\ gj.pc = "swap"
    /\ LET g == GJ_swap([A |-> gj.A, I |-> gj.I], gj.i1, gj.j)
       IN  GJStep([gj EXCEPT !.pc = "scale", !.A = g.A, !.I = g.I])

\* the two div_self_t(&A[j][j]) of pass j
GJScale ==
    /\ gj.pc = "scale"
    /\ LET g0 == [A |-> gj.A, I |-> gj.I]
           g  == GJ_scale(g0, gj.j)
       IN  GJStep([gj EXCEPT !.pc = "elim", !.i = 0, !.A = g.A, !.I = g.I,
                             !.divisors = Append(gj.divisors, GJ_divisor(g0, gj.j))])

\* iteration i of the elimination loop of pass j, then i + 1, the next pass
\* or the end of the outer loop
GJElim ==
    /\ gj.pc = "elim"
    /\ LET g == GJ_elim([A |-> gj.A, I |-> gj.I], gj.j, gj.i)
       IN  GJStep([gj EXCEPT !.A = g.A, !.I = g.I,
                             !.i  = IF gj.i < 3 THEN gj.i + 1 ELSE 0,
                             !.j  = IF gj.i < 3 THEN gj.j ELSE gj.j + 1,
                             !.pc = IF gj.i < 3 THEN "elim"
                                    ELSE IF gj.j < 3 THEN "select" ELSE "return"])

\* Some(I)
GJReturn ==
    /\ gj.pc = "return"
    /\ gj' = [gj EXCEPT !.pc = "done"]
    /\ ret' = Returned(Some(gj.I))
    /\ UNCHANGED <<dim, self, other, before, call, failed, shadow, ncalls>>

NextInverse ==
    \/ InverseClosed
    \/ InverseStart
    \/ GJSelect
    \/ GJSwap
    \/ GJScale
    \/ GJElim
    \/ GJReturn

SpecInverse == InitInverse /\ [][NextInverse]_vars

\* the loop run statement by statement returns what Mat4_inverse computes
GJ_agrees == (dim = 4 /\ ret # Pending) => ret = Returned(Mat4_inverse(self))

---------------------------------------------------------------------------
(* Claims about inverse() (specification SpecInverse)                      *)

\* the matrix with columns (1,2,0,0), (0,1,0,0), (0,0,1,0), (0,0,0,1)
Shear4 == Mat4_from_cols(Vec4List[1], Vec4List[2], Vec4List[3], Vec4List[4])

\* C1: for every 4x4 matrix M with is_invertible(M), inverse() returns
\* Some(X) with M * X fuzzy-equal to the identity.
C1_Mat4InverseIsInverse ==
    (dim = 4 /\ ret # Pending /\ Mat4_is_invertible(self)) =>
        /\ IsSome(ret[1])
        /\ Mat4_fuzzy_eq(Mat4_mul_m(self, Unwrap(ret[1])), Mat4_identity)

\* C2: for every 4x4 matrix whose determinant is not fuzzy-equal to zero,
\* inverse() makes exactly 4 pivot steps and the divisor A[j][j] of the
\* scaling is zero in none of them.
C2_NoZeroDivisor ==
    (dim = 4 /\ call.op = "inverse" /\ gj.pc # "none") =>
        /\ \A k \in 1..Len(gj.divisors) : gj.divisors[k] # R(0)
        /\ gj.pc = "done" => Len(gj.divisors) = 4

\* C5: for N = 2 and N = 3 and every matrix M with is_invertible(M), the
\* closed-form inverse() returns Some(X) with M * X fuzzy-equal to the
\* identity.
C5_ClosedFormInverse ==
    (dim \in {2, 3} /\ ret # Pending /\ is_invertible(dim, self)) =>
        /\ IsSome(ret[1])
        /\ fuzzy_eq(dim, mul_m(dim, self, Unwrap(ret[1])), identity(dim))

C5_Witness ==
    /\ dim = 3
    /\ ret # Pending
    /\ self = Mat3_from_cols(Vec3List[7], Vec3List[4], Vec3List[8])
    /\ is_invertible(dim, self)
    /\ IsSome(ret[1])
    /\ ~Mat3_fuzzy_eq(Unwrap(ret[1]), Mat3_transpose(Unwrap(ret[1])))

\* C6: for N = 2, 3, 4 and every matrix M, inverse() returns None exactly
\* when determinant(M) is fuzzy-equal to zero and Some(_) otherwise: the
\* result is Some iff is_invertible(M).
C6_NoneIffSingular ==
    ret # Pending =>
        /\ ret[1] = None <=> FuzzyEq(determinant(dim, self), R(0))
        /\ IsSome(ret[1]) <=> is_invertible(dim, self)

C6_Witness ==
    /\ dim = 4
    /\ ret = Returned(None)
    /\ determinant(dim, self) # R(0)
    /\ ~is_invertible(dim, self)

\* C24: in every pass j of Mat4 inverse(), the swap of columns i1 and j
\* puts the entry the pivot search selected, A[j][i1] before the swap, on
\* the diagonal: A[j][j] after the swap, the divisor of the scaling, is
\* that entry.
C24_SwapPlacesSelectedPivot ==
    [][gj.pc = "swap" => E(gj'.A, gj.j, gj.j) = E(gj.A, gj.j, gj.i1)]_vars

\* the loop of Mat4 inverse() is running or has run, and has not divided
\* by zero
GJ_sound ==
    /\ dim = 4
    /\ gj.pc \in {"select", "swap", "scale", "elim", "return", "done"}
    /\ \A k \in 1..Len(gj.divisors) : gj.divisors[k] # R(0)

\* row k of A is the unit row: A[k][k] = 1 and A[i][k] = 0 for i # k
UnitRow(A, k) ==
    \A i \in 0..3 : E(A, i, k) = IF i = k THEN R(1) ELSE R(0)

\* C25: while no division by zero has occurred, the working matrix A and
\* the accumulator I of Mat4 inverse() satisfy A = M * I for the original
\* matrix M after every step of the loop, every row k of a finished pass
\* k is the unit row of A, and after the last pass A is the identity.
C25_GaussJordanInvariant ==
    GJ_sound =>
        /\ gj.A = Mat4_mul_m(self, gj.I)
        /\ \A k \in 0..3 : k < gj.j => UnitRow(gj.A, k)
        /\ (gj.pc = "elim" /\ gj.i = 0) => E(gj.A, gj.j, gj.j) = R(1)
        /\ gj.pc \in {"return", "done"} => gj.A = Mat4_identity

C25_Witness ==
    /\ GJ_sound
    /\ gj.pc = "done"
    /\ Len(gj.divisors) = 4
    /\ \E k \in 1..4 : gj.divisors[k] # R(1)
    /\ self # Mat4_transpose(self)
    /\ gj.A = Mat4_identity
    /\ gj.I # Mat4_identity
    /\ ret = Returned(Some(gj.I))

---------------------------------------------------------------------------
(* Rotation conversions: Mat3::from_axis_angle and Mat3::to_Quat           *)

\* An angle is given by the point <<cos, sin>> of the unit circle it names;
\* cos and sin of the scalar trait read the point.
cos(theta) == theta[1]

sin(theta) == theta[2]

half == <<1, 2>>

\* from_axis_angle with every s term added
Mat3_from_axis_angle_symmetric(axis, theta) ==
    LET c    == cos(theta)
        s    == sin(theta)
        one_c == Sub(R(1), c)
        x    == axis[1]
        y    == axis[2]
        z    == axis[3]
    IN  Mat3_new(Add(Mul(Mul(one_c, x), x), c),
                 Add(Mul(Mul(one_c, x), y), Mul(s, z)),
                 Add(Mul(Mul(one_c, x), z), Mul(s, y)),
                 Add(Mul(Mul(one_c, x), y), Mul(s, z)),
                 Add(Mul(Mul(one_c, y), y), c),
                 Add(Mul(Mul(one_c, y), z), Mul(s, x)),
                 Add(Mul(Mul(one_c, x), z), Mul(s, y)),
                 Add(Mul(Mul(one_c, y), z), Mul(s, x)),
                 Add(Mul(Mul(one_c, z), z), c))

\* from_axis_angle without the c term of the diagonal
Mat3_from_axis_angle_bare(axis, theta) ==
    LET c    == cos(theta)
        s    == sin(theta)
        one_c == Sub(R(1), c)
        x    == axis[1]
        y    == axis[2]
        z    == axis[3]
    IN  Mat3_new(Mul(Mul(one_c, x), x),
                 Add(Mul(Mul(one_c, x), y), Mul(s, z)),
                 Sub(Mul(Mul(one_c, x), z), Mul(s, y)),
                 Sub(Mul(Mul(one_c, x), y), Mul(s, z)),
                 Mul(Mul(one_c, y), y),
                 Add(Mul(Mul(one_c, y), z), Mul(s, x)),
                 Add(Mul(Mul(one_c, x), z), Mul(s, y)),
                 Sub(Mul(Mul(one_c, y), z), Mul(s, x)),
                 Mul(Mul(one_c, z), z))

Mat3_from_axis_angle(axis, theta) ==
    LET c    == cos(theta)
        s    == sin(theta)
        one_c == Sub(R(1), c)
        x    == axis[1]
        y    == axis[2]
        z    == axis[3]
    IN  Mat3_new(Add(Mul(Mul(one_c, x), x), c),
                 Add(Mul(Mul(one_c, x), y), Mul(s, z)),
                 Sub(Mul(Mul(one_c, x), z), Mul(s, y)),
                 Sub(Mul(Mul(one_c, x), y), Mul(s, z)),
                 Add(Mul(Mul(one_c, y), y), c),
                 Add(Mul(Mul(one_c, y), z), Mul(s, x)),
                 Add(Mul(Mul(one_c, x), z), Mul(s, y)),
                 Sub(Mul(Mul(one_c, y), z), Mul(s, x)),
                 Add(Mul(Mul(one_c, z), z), c))

\* A square root is kept exact: [k, rad] stands for k * sqrt(rad).  All the
\* components of one quaternion carry the same radicand.
sqrt(a) ==
    IF IsNaN(a) \/ Lt(a, R(0)) THEN [k |-> NaN, rad |-> R(1)]
    ELSE IF ~IsFinite(a) \/ a = R(0) THEN [k |-> a, rad |-> R(1)]
    ELSE [k |-> R(1), rad |-> a]

\* t * s for a scalar t and a root s
Root_mul(t, s) == [k |-> Mul(t, s.k), rad |-> s.rad]

\* t / s = t * sqrt(rad) / (k * rad)
Root_div(t, s) == [k |-> Div(t, Mul(s.k, s.rad)), rad |-> s.rad]

\* the product of two roots of one radicand is a scalar again
Root_prod(p, q) == Mul(Mul(p.k, q.k), p.rad)

Quat_new(w, x, y, z) == [w |-> w, x |-> x, y |-> y, z |-> z]

\* to_Quat with self[1][1] added in the last branch
Mat3_to_Quat_last_sign(m) ==
    LET trace == Mat3_trace(m)
        one   == R(1)
    IN  IF Ge(trace, R(0)) THEN
            LET s0 == sqrt(Add(one, trace))
                w  == Root_mul(half, s0)
                s  == Root_div(half, s0)
            IN  Quat_new(w, Root_mul(Sub(E(m, 1, 2), E(m, 2, 1)), s),
                            Root_mul(Sub(E(m, 2, 0), E(m, 0, 2)), s),
                            Root_mul(Sub(E(m, 0, 1), E(m, 1, 0)), s))
        ELSE IF Gt(E(m, 0, 0), E(m, 1, 1)) /\ Gt(E(m, 0, 0), E(m, 2, 2)) THEN
            LET s0 == sqrt(Add(half, Sub(Sub(E(m, 0, 0), E(m, 1, 1)), E(m, 2, 2))))
                w  == Root_mul(half, s0)
                s  == Root_div(half, s0)
            IN  Quat_new(w, Root_mul(Sub(E(m, 0, 1), E(m, 1, 0)), s),
                            Root_mul(Sub(E(m, 2, 0), E(m, 0, 2)), s),
                            Root_mul(Sub(E(m, 1, 2), E(m, 2, 1)), s))
        ELSE IF Gt(E(m, 1, 1), E(m, 2, 2)) THEN
            LET s0 == sqrt(Add(half, Sub(Sub(E(m, 1, 1), E(m, 0, 0)), E(m, 2, 2))))
                w  == Root_mul(half, s0)
                s  == Root_div(half, s0)
            IN  Quat_new(w, Root_mul(Sub(E(m, 0, 1), E(m, 1, 0)), s),
                            Root_mul(Sub(E(m, 1, 2), E(m, 2, 1)), s),
                            Root_mul(Sub(E(m, 2, 0), E(m, 0, 2)), s))
        ELSE
            LET s0 == sqrt(Add(half, Add(Sub(E(m, 2, 2), E(m, 0, 0)), E(m, 1, 1))))
                w  == Root_mul(half, s0)
                s  == Root_div(half, s0)
            IN  Quat_new(w, Root_mul(Sub(E(m, 2, 0), E(m, 0, 2)), s),
                            Root_mul(Sub(E(m, 1, 2), E(m, 2, 1)), s),
                            Root_mul(Sub(E(m, 0, 1), E(m, 1, 0)), s))

Mat3_to_Quat(m) ==
    LET trace == Mat3_trace(m)
        one   == R(1)
    IN  IF Ge(trace, R(0)) THEN
            LET s0 == sqrt(Add(one, trace))
                w  == Root_mul(half, s0)
                s  == Root_div(half, s0)
            IN  Quat_new(w, Root_mul(Sub(E(m, 1, 2), E(m, 2, 1)), s),
                            Root_mul(Sub(E(m, 2, 0), E(m, 0, 2)), s),
                            Root_mul(Sub(E(m, 0, 1), E(m, 1, 0)), s))
        ELSE IF Gt(E(m, 0, 0), E(m, 1, 1)) /\ Gt(E(m, 0, 0), E(m, 2, 2)) THEN
            LET s0 == sqrt(Add(half, Sub(Sub(E(m, 0, 0), E(m, 1, 1)), E(m, 2, 2))))
                w  == Root_mul(half, s0)
                s  == Root_div(half, s0)
            IN  Quat_new(w, Root_mul(Sub(E(m, 0, 1), E(m, 1, 0)), s),
                            Root_mul(Sub(E(m, 2, 0), E(m, 0, 2)), s),
                            Root_mul(Sub(E(m, 1, 2), E(m, 2, 1)), s))
        ELSE IF Gt(E(m, 1, 1), E(m, 2, 2)) THEN
            LET s0 == sqrt(Add(half, Sub(Sub(E(m, 1, 1), E(m, 0, 0)), E(m, 2, 2))))
                w  == Root_mul(half, s0)
                s  == Root_div(half, s0)
            IN  Quat_new(w, Root_mul(Sub(E(m, 0, 1), E(m, 1, 0)), s),
                            Root_mul(Sub(E(m, 1, 2), E(m, 2, 1)), s),
                            Root_mul(Sub(E(m, 2, 0), E(m, 0, 2)), s))
        ELSE
            LET s0 == sqrt(Add(half, Sub(Sub(E(m, 2, 2), E(m, 0, 0)), E(m, 1, 1))))
                w  == Root_mul(half, s0)
                s  == Root_div(half, s0)
            IN  Quat_new(w, Root_mul(Sub(E(m, 2, 0), E(m, 0, 2)), s),
                            Root_mul(Sub(E(m, 1, 2), E(m, 2, 1)), s),
                            Root_mul(Sub(E(m, 0, 1), E(m, 1, 0)), s))

\* the branch of to_Quat a matrix takes
Mat3_to_Quat_branch(m) ==
    IF Ge(Mat3_trace(m), R(0)) THEN "trace"
    ELSE IF Gt(E(m, 0, 0), E(m, 1, 1)) /\ Gt(E(m, 0, 0), E(m, 2, 2)) THEN "x"
    ELSE IF Gt(E(m, 1, 1), E(m, 2, 2)) THEN "y"
    ELSE "z"

\* The rotation a quaternion stands for, vec |-> q vec q^-1, as the matrix
\* of that map (columns are the images of the unit vectors).
Quat_to_Mat3(q) ==
    LET ww == Root_prod(q.w, q.w)
        xx == Root_prod(q.x, q.x)
        yy == Root_prod(q.y, q.y)
        zz == Root_prod(q.z, q.z)
        xy == Root_prod(q.x, q.y)
        xz == Root_prod(q.x, q.z)
        yz == Root_prod(q.y, q.z)
        wx == Root_prod(q.w, q.x)
        wy == Root_prod(q.w, q.y)
        wz == Root_prod(q.w, q.z)
        n  == Add(Add(ww, xx), Add(yy, zz))
        m  == Mat3_new(Sub(Sub(Add(ww, xx), yy), zz),
                       Mul(R(2), Add(xy, wz)),
                       Mul(R(2), Sub(xz, wy)),
                       Mul(R(2), Sub(xy, wz)),
                       Sub(Add(Sub(ww, xx), yy), zz),
                       Mul(R(2), Add(yz, wx)),
                       Mul(R(2), Add(xz, wy)),
                       Mul(R(2), Sub(yz, wx)),
                       Add(Sub(Sub(ww, xx), yy), zz))
    IN  Mat3_mul_t(m, Div(R(1), n))

Quat_mul_v(q, vec) == Mat3_mul_v(Quat_to_Mat3(q), vec)

\* unit axes
AxisList ==
    <<Vec3_new(R(1), R(0), R(0)), Vec3_new(R(0), R(1), R(0)), Vec3_new(R(0), R(0), R(1)),
      Vec3_new(<<3, 5>>, <<4, 5>>, R(0)), Vec3_new(R(0), <<-3, 5>>, <<4, 5>>),
      Vec3_new(<<2, 3>>, <<-2, 3>>, <<1, 3>>), Vec3_new(R(-1), R(0), R(0)),
      Vec3_new(<<1, 3>>, <<2, 3>>, <<2, 3>>), Vec3_new(<<4, 5>>, R(0), <<3, 5>>)>>

NumAxes == 8

Axes == {AxisList[k] : k \in 1..NumAxes}

\* axes of other lengths, the null vector among them
FreeAxisList ==
    <<Vec3_new(R(2), R(0), R(0)), Vec3_new(R(1), R(1), R(0)), Vec3_new(R(0), R(0), R(0)),
      Vec3_new(<<1, 2>>, <<-1, 2>>, R(3)), Vec3_new(R(0), R(0), <<1, 2>>)>>

NumFreeAxes == 3

FreeAxes == {FreeAxisList[k] : k \in 1..NumFreeAxes}

IsUnit(axis) == Vec_dot(axis, axis) = R(1)

\* angles, as points <<cos, sin>> of the unit circle: 0, 90, 180 and 270
\* degrees and the angles of the 3-4-5 and 5-12-13 triangles
AngleList ==
    <<<<R(1), R(0)>>, <<R(0), R(1)>>, <<R(-1), R(0)>>, <<R(0), R(-1)>>,
      <<<<3, 5>>, <<4, 5>>>>, <<<<-3, 5>>, <<4, 5>>>>, <<<<-4, 5>>, <<-3, 5>>>>,
      <<<<4, 5>>, <<-3, 5>>>>, <<<<-5, 13>>, <<12, 13>>>>, <<<<-12, 13>>, <<5, 13>>>>>>

NumAngles == 8

Angles == {AngleList[k] : k \in 1..NumAngles}

\* -theta: the point mirrored in the cosine axis
Angle_neg(theta) == <<cos(theta), Neg(sin(theta))>>

Basis3 == {Vec3_new(R(1), R(0), R(0)), Vec3_new(R(0), R(1), R(0)), Vec3_new(R(0), R(0), R(1))}

\* the value a call returned, under the kind of value it is
Scalar(v) == [scalar |-> v]

Matrix(v) == [matrix |-> v]

Bool(v) == [bool |-> v]

Vector(v) == [vector |-> v]

Quat(v) == [quat |-> v]

NoResult == [none |-> <<>>]

InitRotation ==
    /\ dim = 3
    /\ self = Mat3_zero
    /\ other = self
    /\ before = self
    /\ call = [op |-> "new"]
    /\ ret = NoResult
    /\ failed = ""
    /\ shadow = self
    /\ ncalls = 0
    /\ gj = Idle

\* Mat3::from_axis_angle(&axis, theta)
FromAxisAngle ==
    /\ call.op = "new"
    /\ \E axis \in Axes \cup FreeAxes, theta \in Angles :
         /\ call' = [op |-> "from_axis_angle", axis |-> axis, theta |-> theta]
         /\ self' = Mat3_from_axis_angle(axis, theta)
    /\ before' = self
    /\ ncalls' = ncalls + 1
    /\ UNCHANGED <<dim, other, ret, failed, shadow, gj>>

\* diagonal entries of the other matrices to_Quat is called on
DiagList == <<R(-2), R(1), R(-1), R(0), Neg(Tiny), R(2)>>

NumDiags == 5

Diags == {DiagList[k] : k \in 1..NumDiags}

\* Mat3::new(c0r0, ..., c2r2), for a diagonal and one off-diagonal value
NewMat3 ==
    /\ call.op = "new"
    /\ \E a \in Diags, b \in Diags, c \in Diags, u \in {R(0), R(1)} :
         self' = Mat3_new(a, u, R(0), R(0), b, u, u, R(0), c)
    /\ call' = [op |-> "Mat3_new"]
    /\ before' = self
    /\ ncalls' = ncalls + 1
    /\ UNCHANGED <<dim, other, ret, failed, shadow, gj>>

\* self.to_Quat()
ToQuat ==
    /\ call.op \in {"from_axis_angle", "Mat3_new"}
    /\ ret = NoResult
    /\ ret' = Quat(Mat3_to_Quat(self))
    /\ ncalls' = ncalls + 1
    /\ UNCHANGED <<dim, self, other, before, call, failed, shadow, gj>>

\* self.mul_v(&vec)
RotateVec ==
    /\ call.op = "from_axis_angle"
    /\ ret = NoResult
    /\ \E vec \in Basis3 :
         /\ call' = [op |-> "mul_v", axis |-> call.axis, theta |-> call.theta, vec |-> vec]
         /\ ret' = Vector(Mat3_mul_v(self, vec))
    /\ ncalls' = ncalls + 1
    /\ UNCHANGED <<dim, self, other, before, failed, shadow, gj>>

\* self.mul_m(&Mat3::from_axis_angle(&axis, -theta)), for the axis and the
\* angle self was made from
RotateBack ==
    /\ call.op = "from_axis_angle"
    /\ ret = NoResult
    /\ call' = [op |-> "mul_m", axis |-> call.axis, theta |-> call.theta]
    /\ other' = Mat3_from_axis_angle(call.axis, Angle_neg(call.theta))
    /\ ret' = Matrix(Mat3_mul_m(self, other'))
    /\ ncalls' = ncalls + 1
    /\ UNCHANGED <<dim, self, before, failed, shadow, gj>>

NextRotation ==
    \/ FromAxisAngle
    \/ NewMat3
    \/ ToQuat
    \/ RotateVec
    \/ RotateBack

SpecRotation == InitRotation /\ [][NextRotation]_vars

\* C4: for every unit axis and every angle, the quaternion returned by
\* to_Quat(from_axis_angle(axis, theta)) stands for the rotation of the
\* matrix: applied to any vector it gives what the matrix gives.
C4_ToQuatSameRotation ==
    (call.op = "from_axis_angle" /\ ret # NoResult /\ IsUnit(call.axis)) =>
        \A vec \in Basis3 : Vec_fuzzy_eq(Quat_mul_v(ret.quat, vec), Mat3_mul_v(self, vec))

\* the same statement for the matrices that take the first branch of
\* to_Quat (trace >= 0)
ToQuat_trace_branch ==
    (call.op = "from_axis_angle" /\ ret # NoResult /\ IsUnit(call.axis)
        /\ Mat3_to_Quat_branch(self) = "trace") =>
        \A vec \in Basis3 : Vec_fuzzy_eq(Quat_mul_v(ret.quat, vec), Mat3_mul_v(self, vec))

\* the largest of the diagonal entries of m
MaxDiag(m) ==
    LET a == E(m, 0, 0)
        b == E(m, 1, 1)
        c == E(m, 2, 2)
        ab == IF Ge(a, b) THEN a ELSE b
    IN  IF Ge(ab, c) THEN ab ELSE c

\* C26: for every 3x3 matrix, to_Quat takes one of its four branches: the
\* first when trace >= 0, and otherwise the branch of a diagonal entry that
\* is the largest of the three (x for [0][0], y for [1][1], z for [2][2]);
\* the value passed to sqrt is >= 1 in the trace branch and > 0.5 in the
\* diagonal branches, so s is not zero in half / s.
C26_ToQuatBranches ==
    (call.op \in {"from_axis_angle", "Mat3_new"} /\ ret # NoResult) =>
        LET b  == Mat3_to_Quat_branch(self)
            tr == Mat3_trace(self)
            w  == ret.quat.w
        IN  /\ b \in {"trace", "x", "y", "z"}
            /\ b = "trace" <=> Ge(tr, R(0))
            /\ b = "x" => E(self, 0, 0) = MaxDiag(self)
            /\ b = "y" => E(self, 1, 1) = MaxDiag(self)
            /\ b = "z" => E(self, 2, 2) = MaxDiag(self)
            /\ w.k = half
            /\ b = "trace" => (w.rad = Add(R(1), tr) /\ Ge(w.rad, R(1)))
            /\ b # "trace" =>
                  /\ w.rad = Add(half, Sub(Mul(R(2), MaxDiag(self)), tr))
                  /\ Gt(w.rad, half)
            /\ IsFinite(ret.quat.x.k) /\ IsFinite(ret.quat.y.k) /\ IsFinite(ret.quat.z.k)

C26_Witness ==
    /\ call.op = "Mat3_new"
    /\ ret # NoResult
    /\ self = Mat3_new(R(-2), R(1), R(0), R(0), Neg(Tiny), R(1), R(1), R(0), Neg(Tiny))
    /\ Mat3_to_Quat_branch(self) = "z"
    /\ ret.quat.w = [k |-> half, rad |-> <<5, 2>>]

\* C18: for every unit axis and every angle theta, the product of the
\* rotation by theta and the rotation by -theta about the axis fuzzy-equals
\* the 3x3 identity.
C18_RotateBackIsIdentity ==
    (call.op = "mul_m" /\ IsUnit(call.axis)) =>
        /\ other = Mat3_from_axis_angle(call.axis, Angle_neg(call.theta))
        /\ ret.matrix = Mat3_mul_m(self, other)
        /\ Mat3_fuzzy_eq(ret.matrix, Mat3_identity)

C18_Witness ==
    /\ call.op = "mul_m"
    /\ call.axis = AxisList[6]
    /\ call.theta = AngleList[5]
    /\ self # Mat3_identity
    /\ other # self
    /\ ret.matrix = Mat3_identity

\* C19: for every axis, of unit length or not, the rotation by the angle 0
\* fuzzy-equals the 3x3 identity.
C19_ZeroAngleIsIdentity ==
    (call.op = "from_axis_angle" /\ call.theta = AngleList[1]) =>
        Mat3_fuzzy_eq(self, Mat3_identity)

C19_Witness ==
    /\ call.op = "from_axis_angle"
    /\ call.theta = AngleList[1]
    /\ call.axis = FreeAxisList[2]
    /\ ~IsUnit(call.axis)
    /\ ret = NoResult
    /\ self = Mat3_identity

\* C20: the rotation about the z axis by the angle of cosine c and sine s
\* maps (1, 0, 0) to (c, s, 0), up to epsilon; the one by 90 degrees maps
\* it to (0, 1, 0).
C20_ZRotationIsCounterClockwise ==
    (call.op = "mul_v" /\ call.axis = AxisList[3] /\ call.vec = AxisList[1]) =>
        /\ Vec_fuzzy_eq(ret.vector, Vec3_new(cos(call.theta), sin(call.theta), R(0)))
        /\ call.theta = AngleList[2] => Vec_fuzzy_eq(ret.vector, AxisList[2])

C20_Witness ==
    /\ call.op = "mul_v"
    /\ call.axis = Vec3_new(R(0), R(0), R(1))
    /\ call.vec = Vec3_new(R(1), R(0), R(0))
    /\ call.theta = <<R(0), R(1)>>
    /\ ret.vector = Vec3_new(R(0), R(1), R(0))

---------------------------------------------------------------------------
(* Calls of the pure functions of the Matrix trait                         *)

dot(d, m, o) ==
    CASE d = 2 -> Mat2_dot(m, o) [] d = 3 -> Mat3_dot(m, o) [] d = 4 -> Mat4_dot(m, o)

trace(d, m) ==
    CASE d = 2 -> Mat2_trace(m) [] d = 3 -> Mat3_trace(m) [] d = 4 -> Mat4_trace(m)

is_symmetric(d, m) ==
    CASE d = 2 -> Mat2_is_symmetric(m) [] d = 3 -> Mat3_is_symmetric(m) [] d = 4 -> Mat4_is_symmetric(m)

col(d, m, i) ==
    CASE d = 2 -> Mat2_col(m, i) [] d = 3 -> Mat3_col(m, i) [] d = 4 -> Mat4_col(m, i)

row(d, m, i) ==
    CASE d = 2 -> Mat2_row(m, i) [] d = 3 -> Mat3_row(m, i) [] d = 4 -> Mat4_row(m, i)

Mat2_to_mat3(m) == Mat3_from_Mat2(m)

Mat2_to_mat4(m) == Mat4_from_Mat2(m)

Mat3_to_mat4(m) == Mat4_from_Mat3(m)

to_mat4(d, m) == CASE d = 2 -> Mat2_to_mat4(m) [] d = 3 -> Mat3_to_mat4(m)

\* a difference below FUZZY_EPSILON: 2^-20
Small == <<1, 1048576>>

\* symmetric matrices, and the amounts one entry of them is moved by
SymBase2 == Mat2_new(R(1), R(2), R(2), R(3))

SymBase3 == Mat3_new(R(1), R(2), R(0), R(2), R(-1), R(3), R(0), R(3), R(2))

SymBase4 ==
    Mat4_new(R(1), R(2), R(0), R(-1),     R(2), R(0), R(3), R(1),
             R(0), R(3), R(2), R(0),      R(-1), R(1), R(0), R(1))

SymBase(d) == CASE d = 2 -> SymBase2 [] d = 3 -> SymBase3 [] d = 4 -> SymBase4

DeltaList == <<Small, Neg(Small), Tiny, R(1), R(-2)>>

NumDeltas == 4

Deltas == {DeltaList[k] : k \in 1..NumDeltas}

Perturbed(d) ==
    {SymBase(d)} \cup
    {SetE(SymBase(d), c, r, Add(E(SymBase(d), c, r), dl)) :
        c \in 0..(d - 1), r \in 0..(d - 1), dl \in Deltas}

\* the matrices the functions are called on, and their matrix arguments
AlgInputs(d) == Inputs(d) \cup Perturbed(d)

\* (the arguments have integer entries)
AlgArgList(d) == <<SampleList(d)[1], SampleList(d)[3], SampleList(d)[4], SampleList(d)[5]>>

NumArgs == 2

AlgArgs(d) == {AlgArgList(d)[k] : k \in 1..NumArgs} \cup {identity(d), zero(d)}

InitAlg ==
    /\ dim \in Dims
    /\ self \in AlgInputs(dim)
    /\ other \in AlgArgs(dim)
    /\ before = self
    /\ call = [op |-> "new"]
    /\ ret = NoResult
    /\ failed = ""
    /\ shadow = self
    /\ ncalls = 0
    /\ gj = Idle

\* a pure function is called on self and returns v
Call(name, v) ==
    /\ call' = [op |-> name]
    /\ ret' = v
    /\ ncalls' = ncalls + 1
    /\ UNCHANGED <<dim, self, other, before, failed, shadow, gj>>

Determinant ==
    /\ call.op = "new"
    /\ Call("determinant", Scalar(determinant(dim, self)))

MulM ==
    /\ call.op = "new"
    /\ Call("mul_m", Matrix(mul_m(dim, self, other)))

Dot ==
    /\ call.op = "new"
    /\ Call("dot", Scalar(dot(dim, self, other)))

Transpose ==
    /\ call.op = "new"
    /\ Call("transpose", Matrix(transpose(dim, self)))

IsSymmetric ==
    /\ call.op = "new"
    /\ Call("is_symmetric", Bool(is_symmetric(dim, self)))

\* self.to_mat3(), of a Mat2
ToMat3 ==
    /\ call.op = "new"
    /\ dim = 2
    /\ Call("to_mat3", Matrix(Mat2_to_mat3(self)))

\* self.to_mat4(), of a Mat2 or a Mat3
ToMat4 ==
    /\ call.op = "new"
    /\ dim \in {2, 3}
    /\ Call("to_mat4", Matrix(to_mat4(dim, self)))

NextAlg ==
    \/ Determinant
    \/ MulM
    \/ Dot
    \/ Transpose
    \/ IsSymmetric
    \/ ToMat3
    \/ ToMat4

SpecAlg == InitAlg /\ [][NextAlg]_vars

---------------------------------------------------------------------------
(* Claims about the pure functions (specification SpecAlg)                 *)

\* the permutations of 1..d
Perms2 == {p \in [1..2 -> 1..2] : p[1] # p[2]}

Perms3 == {p \in [1..3 -> 1..3] : \A i \in 1..3, j \in 1..3 : i # j => p[i] # p[j]}

Perms4 == {p \in [1..4 -> 1..4] : \A i \in 1..4, j \in 1..4 : i # j => p[i] # p[j]}

Perms(d) == CASE d = 2 -> Perms2 [] d = 3 -> Perms3 [] d = 4 -> Perms4

\* +1 for an even permutation, -1 for an odd one
PermSign(p, d) ==
    IF Cardinality({ij \in (1..d) \X (1..d) : ij[1] < ij[2] /\ p[ij[1]] > p[ij[2]]}) % 2 = 0
    THEN R(1) ELSE R(-1)

\* the product of the entries (column c, row p[c])
RECURSIVE PermProd(_, _, _, _)
PermProd(m, p, c, d) ==
    IF c > d THEN R(1) ELSE Mul(m[c][p[c]], PermProd(m, p, c + 1, d))

RECURSIVE PermSum(_, _, _)
PermSum(m, S, d) ==
    IF S = {} THEN R(0)
    ELSE LET p == CHOOSE q \in S : TRUE
         IN  Add(Mul(PermSign(p, d), PermProd(m, p, 1, d)), PermSum(m, S \ {p}, d))

\* the signed sum over the permutations of the products of entries
RefDeterminant(d, m) == PermSum(m, Perms(d), d)

\* C11: for N = 2, 3, 4 and every matrix, determinant() is the signed sum
\* over the permutations of the products of entries (a*d - b*c for N = 2,
\* the triple product for N = 3, the cofactor expansion along row 0 for
\* N = 4).
C11_DeterminantIsReference ==
    call.op = "determinant" => ret.scalar = RefDeterminant(dim, self)

C11_Witness ==
    /\ call.op = "determinant"
    /\ dim = 4
    /\ self = SetE(SymBase4, 3, 0, R(0))
    /\ ret.scalar # R(0)
    /\ ret.scalar = RefDeterminant(dim, self)

\* the sum over k of A(row i, column k) * B(row k, column j)
RefProductEntry(A, B, i, j, d) ==
    SumFrom([k \in 1..d |-> Mul(A[k][i + 1], B[j + 1][k])], 1)

\* C12: for N = 2, 3, 4 and all matrices A, B the element of mul_m(A, B)
\* at row i, column j is dot(A.row(i), B.col(j)): the standard product.
C12_MulMIsProduct ==
    call.op = "mul_m" =>
        \A i \in 0..(dim - 1), j \in 0..(dim - 1) :
            /\ E(ret.matrix, j, i) = Vec_dot(row(dim, self, i), col(dim, other, j))
            /\ E(ret.matrix, j, i) = RefProductEntry(self, other, i, j, dim)

C12_Witness ==
    /\ call.op = "mul_m"
    /\ dim = 3
    /\ other = Samples3[1]
    /\ self = SetE(SymBase3, 2, 0, Tiny)
    /\ ret.matrix # mul_m(dim, other, self)

\* the sum over all columns c and rows r of A[c][r] * B[c][r]
Frobenius(A, B, d) ==
    SumFrom([k \in 1..(d * d) |->
                Mul(A[((k - 1) \div d) + 1][((k - 1) % d) + 1],
                    B[((k - 1) \div d) + 1][((k - 1) % d) + 1])], 1)

\* C13: for N = 2, 3, 4 and all matrices A, B, A.dot(B) is
\* trace(transpose(B) * A), the sum of the products of matching entries.
C13_DotIsFrobenius ==
    call.op = "dot" =>
        /\ ret.scalar = trace(dim, mul_m(dim, transpose(dim, other), self))
        /\ ret.scalar = Frobenius(self, other, dim)

C13_Witness ==
    /\ call.op = "dot"
    /\ dim = 4
    /\ other = Samples4[1]
    /\ self = SetE(SymBase4, 1, 3, R(2))
    /\ ret.scalar # R(0)

\* C14: for N = 2, 3, 4 and every matrix M, mul_m(M, identity()) = M and
\* mul_m(M, zero()) = zero(), exactly.
C14_IdentityAndZero ==
    call.op = "mul_m" =>
        /\ other = identity(dim) => ret.matrix = self
        /\ other = zero(dim) => ret.matrix = zero(dim)

C14_Witness ==
    /\ call.op = "mul_m"
    /\ dim = 4
    /\ other = identity(dim)
    /\ self = Mat4_from_cols(Vec4List[5], Vec4List[1], Vec4List[3], Vec4List[5])
    /\ ret.matrix = self

\* C15: for N = 2, 3, 4 and every matrix M, transpose(transpose(M)) = M
\* exactly, and transpose(M) has at (column c, row r) what M has at
\* (column r, row c).
C15_TransposeInvolution ==
    call.op = "transpose" =>
        /\ transpose(dim, ret.matrix) = self
        /\ \A c \in 0..(dim - 1), r \in 0..(dim - 1) : E(ret.matrix, c, r) = E(self, r, c)

C15_Witness ==
    /\ call.op = "transpose"
    /\ dim = 2
    /\ self = Mat2_new(R(1), R(2), Tiny, R(-1))
    /\ ret.matrix = Mat2_new(R(1), Tiny, R(2), R(-1))

\* C16: for N = 2, 3, 4 and every matrix M,
\* determinant(transpose(M)) = determinant(M).
C16_DeterminantOfTranspose ==
    call.op = "determinant" =>
        ret.scalar = determinant(dim, transpose(dim, self))

C16_Witness ==
    /\ call.op = "determinant"
    /\ dim = 3
    /\ self = Mat3_from_cols(Vec3List[4], Vec3List[7], Vec3List[8])
    /\ self # transpose(dim, self)
    /\ ret.scalar # R(0)

\* C17: for N = 2, 3, 4 and every matrix M, is_symmetric(M) is true iff M
\* fuzzy-equals transpose(M).
C17_SymmetricIffFuzzyEqTranspose ==
    call.op = "is_symmetric" =>
        ret.bool <=> fuzzy_eq(dim, self, transpose(dim, self))

C17_Witness ==
    /\ call.op = "is_symmetric"
    /\ dim = 3
    /\ ret.bool
    /\ self # transpose(dim, self)

\* C27: for N = 2, 3, 4 and all matrices A and B, determinant(mul_m(A, B))
\* = determinant(A) * determinant(B); and the lifts keep the determinant:
\* determinant(to_mat3(m)) = determinant(to_mat4(m)) = determinant(m) for a
\* Mat2 m, determinant(to_mat4(m)) = determinant(m) for a Mat3 m.
C27_DeterminantMultiplicative ==
    /\ call.op = "mul_m" =>
          determinant(dim, ret.matrix) =
              Mul(determinant(dim, self), determinant(dim, other))
    /\ call.op = "to_mat3" =>
          /\ Mat3_determinant(ret.matrix) = Mat2_determinant(self)
          /\ Mat3_determinant(ret.matrix) = Mat4_determinant(Mat2_to_mat4(self))
    /\ call.op = "to_mat4" =>
          Mat4_determinant(ret.matrix) = determinant(dim, self)

C27_Witness ==
    /\ call.op = "mul_m"
    /\ dim = 4
    /\ other = Samples4[1]
    /\ self = SetE(SymBase4, 1, 3, R(2))
    /\ determinant(dim, other) \notin {R(0), R(1)}
    /\ determinant(dim, self) \notin {R(0), R(1)}
    /\ ret.matrix # mul_m(dim, other, self)

---------------------------------------------------------------------------
(* Projection builders: perspective, frustum and ortho                     *)

\* The builders divide by differences that can be zero, and the sign of an
\* IEEE zero decides the sign of the quotient: here a zero carries its
\* sign, <<0, 1>> = +0.0 and <<0, -1>> = -0.0, and the operators below are
\* the float operators on such scalars (exact otherwise).
NegZero == <<0, -1>>

IsZero(a) == a[1] = 0 /\ a[2] # 0

\* the sign bit
Negative(a) == a[1] < 0 \/ a = NegZero

Zero(neg) == IF neg THEN NegZero ELSE R(0)

\* the scalar without the sign of its zero
Plain(a) == IF a = NegZero THEN R(0) ELSE a

Float_neg(a) == IF IsZero(a) THEN Zero(~Negative(a)) ELSE Neg(a)

\* x + (-x) = +0.0, and a sum of zeros is -0.0 only when both are
Float_add(a, b) ==
    LET p == Add(Plain(a), Plain(b))
    IN  IF p = R(0) THEN Zero(IsZero(a) /\ IsZero(b) /\ Negative(a) /\ Negative(b))
        ELSE p

Float_sub(a, b) == Float_add(a, Float_neg(b))

Float_mul(a, b) ==
    LET p == Mul(Plain(a), Plain(b))
    IN  IF p = R(0) THEN Zero(Negative(a) # Negative(b)) ELSE p

Float_div(a, b) ==
    IF IsZero(b)
    THEN IF IsNaN(a) \/ IsZero(a) THEN NaN
         ELSE <<IF Negative(a) # Negative(b) THEN -1 ELSE 1, 0>>
    ELSE LET p == Div(Plain(a), b)
         IN  IF p = R(0) THEN Zero(Negative(a) # Negative(b)) ELSE p

two == R(2)

\* An angle in radians is kept as the multiple of pi it is: to_radians
\* takes d degrees to d / 180 (times pi).
to_radians(deg) == Float_div(deg, R(180))

\* Fixed-point arithmetic for the tangent of an angle: a value v is the
\* integer v * 2^30, and every intermediate product stays below 2^31.
Fix_one == 2^30

Fix_limb == 2^15

\* a * b / 2^30, rounded, by 15-bit limbs
Fix_mul(a, b) ==
    LET a1 == a \div Fix_limb
        a0 == a % Fix_limb
        b1 == b \div Fix_limb
        b0 == b % Fix_limb
        cross == a1 * b0 + a0 * b1 + (a0 * b0 + Fix_limb \div 2) \div Fix_limb
    IN  a1 * b1 + (cross + Fix_limb \div 2) \div Fix_limb

RECURSIVE Fix_div_from(_, _, _, _)
Fix_div_from(rem, b, k, acc) ==
    IF k = 0 THEN acc + (IF rem >= b - rem THEN 1 ELSE 0)
    ELSE LET bit == IF rem >= b - rem THEN 1 ELSE 0
             rem1 == IF bit = 1 THEN rem - (b - rem) ELSE rem + rem
             acc1 == 2 * acc + bit
         IN  IF rem1 + acc1 >= 0 THEN Fix_div_from(rem1, b, k - 1, acc1) ELSE 0

\* a / b * 2^30, rounded, for 0 <= a <= b: thirty steps of long division
\* (each step's remainder and quotient are evaluated before the next step)
Fix_div(a, b) == Fix_div_from(a, b, 30, 0)

\* 1 - x2/ks[i] * (1 - x2/ks[i+1] * (...)), the Taylor series in Horner form
RECURSIVE Fix_horner(_, _, _, _)
Fix_horner(x2, ks, i, acc) ==
    IF i > Len(ks) THEN acc
    ELSE LET acc1 == Fix_one - Fix_mul((x2 + ks[i] \div 2) \div ks[i], acc)
         IN  IF acc1 >= 0 THEN Fix_horner(x2, ks, i + 1, acc1) ELSE 0

\* tan(pi * a / b) * 2^30 for 0 <= a / b <= 1/4: x = (4a / b) * (pi / 4), then
\* sin x / cos x by their series to x^13 and x^12
Fix_tan(a, b) ==
    LET x  == Fix_mul(Fix_div(4 * a, b), 843314857)
        x2 == Fix_mul(x, x)
        s  == Fix_mul(x, Fix_horner(x2, <<156, 110, 72, 42, 20, 6>>, 1, Fix_one))
        c  == Fix_horner(x2, <<132, 90, 56, 30, 12, 2>>, 1, Fix_one)
    IN  Fix_div(s, c)

\* |t| or 1 / |t|, the one that is at most 1, times 2^30
Fix_of(t) ==
    IF IAbs(t[1]) <= t[2] THEN Fix_div(IAbs(t[1]), t[2])
    ELSE Fix_div(t[2], IAbs(t[1]))

\* The slack of TanReturns at the angle q * pi, times 2^30. The argument of
\* tan is a float: (fovy / two()).to_radians() carries a relative rounding
\* of up to 2^-23 in the shortest Float (the constant pi / 180 and the
\* product), an error of up to pi * |q| * 2^-23 in the angle and of twice
\* that in a tangent or cotangent of at most 1; the result is rounded once
\* more. (2 + |q|) * 2^-20 covers both.
Fix_slack(q) == (IAbs(q[1]) \div q[2] + 2) * 2^10

\* tan is the scalar type's, S: Float, and not the repository's: what it
\* returns depends on S (at 180 degrees f64 gives -1.2e-16 and f32 8.7e-8)
\* and is no rational. TanReturns(q, t) says that t is a value S's tan can
\* return for the angle q * pi:
\*  - NaN for a non-finite angle, and the zero itself for a zero;
\*  - otherwise finite and not zero (no float but zero is a multiple of
\*    pi / 2), and within the slack of the tangent where |tan| <= 1, 1 / t
\*    within the slack of the cotangent where |tan| >= 1; its sign is the
\*    tangent's unless the tangent or cotangent is within the slack of zero
\*    (at a multiple of pi / 2 the sign is that of the rounding). Past
\*    2^19 * pi the roundings of the angle leave no bound.
\* The angle is reflected into [0, pi / 2] (tan(pi - x) = -tan x); ref is
\* the one of tan and cot that is at most 1, and v the one of |t| and
\* 1 / |t| that is. Where v is the reciprocal of what ref bounds,
\* 1 / v <= ref + slack is v >= 1 / (ref + slack).
TanReturns(q, t) ==
    IF ~IsFinite(q) THEN IsNaN(t)
    ELSE IF IsZero(q) THEN t = q
    ELSE LET d == q[2]
             m == q[1] % d
             neg == 2 * m > d
             r == IF neg THEN d - m ELSE m
             flat == 4 * r <= d
             ref == IF flat THEN Fix_tan(r, d) ELSE Fix_tan(d - 2 * r, 2 * d)
             small == IAbs(t[1]) <= t[2]
             v == Fix_of(t)
             slack == Fix_slack(q)
         IN  /\ IsFinite(t)
             /\ ~IsZero(t)
             /\ \/ IAbs(q[1]) \div d >= 2^19
                \/ /\ ref > slack => (Negative(t) <=> neg)
                   /\ IF small = flat THEN IAbs(v - ref) <= slack
                      ELSE ref + slack >= Fix_one /\ v >= Fix_div(Fix_one, ref + slack)

\* ortho with the far - near terms un-negated
ortho_unflipped(left, right, bottom, top, near, far) ==
    Mat4_new(Float_div(two, Float_sub(right, left)), R(0), R(0), R(0),
             R(0), Float_div(two, Float_sub(top, bottom)), R(0), R(0),
             R(0), R(0), Float_div(two, Float_sub(far, near)), R(0),
             Float_div(Float_neg(Float_add(right, left)), Float_sub(right, left)),
             Float_div(Float_neg(Float_add(top, bottom)), Float_sub(top, bottom)),
             Float_div(Float_add(far, near), Float_sub(far, near)),
             R(1))

ortho(left, right, bottom, top, near, far) ==
    LET c0r0 == Float_div(two, Float_sub(right, left))
        c0r1 == R(0)
        c0r2 == R(0)
        c0r3 == R(0)
        c1r0 == R(0)
        c1r1 == Float_div(two, Float_sub(top, bottom))
        c1r2 == R(0)
        c1r3 == R(0)
        c2r0 == R(0)
        c2r1 == R(0)
        c2r2 == Float_div(Float_neg(two), Float_sub(far, near))
        c2r3 == R(0)
        c3r0 == Float_div(Float_neg(Float_add(right, left)), Float_sub(right, left))
        c3r1 == Float_div(Float_neg(Float_add(top, bottom)), Float_sub(top, bottom))
        c3r2 == Float_div(Float_neg(Float_add(far, near)), Float_sub(far, near))
        c3r3 == R(1)
    IN  Mat4_new(c0r0, c0r1, c0r2, c0r3,
                 c1r0, c1r1, c1r2, c1r3,
                 c2r0, c2r1, c2r2, c2r3,
                 c3r0, c3r1, c3r2, c3r3)

\* frustum with the depth term of column 3 taken from far alone
frustum_far_only(left, right, bottom, top, near, far) ==
    Mat4_new(Float_div(Float_mul(two, near), Float_sub(right, left)), R(0), R(0), R(0),
             R(0), Float_div(Float_mul(two, near), Float_sub(top, bottom)), R(0), R(0),
             Float_div(Float_add(right, left), Float_sub(right, left)),
             Float_div(Float_add(top, bottom), Float_sub(top, bottom)),
             Float_div(Float_neg(Float_add(far, near)), Float_sub(far, near)),
             Float_neg(R(1)),
             R(0), R(0), Float_div(Float_neg(Float_mul(two, far)), Float_sub(far, near)), R(0))

frustum(left, right, bottom, top, near, far) ==
    LET c0r0 == Float_div(Float_mul(two, near), Float_sub(right, left))
        c0r1 == R(0)
        c0r2 == R(0)
        c0r3 == R(0)
        c1r0 == R(0)
        c1r1 == Float_div(Float_mul(two, near), Float_sub(top, bottom))
        c1r2 == R(0)
        c1r3 == R(0)
        c2r0 == Float_div(Float_add(right, left), Float_sub(right, left))
        c2r1 == Float_div(Float_add(top, bottom), Float_sub(top, bottom))
        c2r2 == Float_div(Float_neg(Float_add(far, near)), Float_sub(far, near))
        c2r3 == Float_neg(R(1))
        c3r0 == R(0)
        c3r1 == R(0)
        c3r2 == Float_div(Float_neg(Float_mul(Float_mul(two, far), near)), Float_sub(far, near))
        c3r3 == R(0)
    IN  Mat4_new(c0r0, c0r1, c0r2, c0r3,
                 c1r0, c1r1, c1r2, c1r3,
                 c2r0, c2r1, c2r2, c2r3,
                 c3r0, c3r1, c3r2, c3r3)

\* perspective dividing by the aspect ratio
perspective_aspect_divided(fovy, aspectRatio, near, far, tan) ==
    LET ymax == Float_mul(near, tan[to_radians(Float_div(fovy, two))])
        xmax == Float_div(ymax, aspectRatio)
    IN  frustum(Float_neg(xmax), xmax, Float_neg(ymax), ymax, near, far)

\* perspective<S: Float>: tan is S's, a table from the angles (multiples of
\* pi) to what S's tan returns for them
perspective(fovy, aspectRatio, near, far, tan) ==
    LET ymax == Float_mul(near, tan[to_radians(Float_div(fovy, two))])
        xmax == Float_mul(ymax, aspectRatio)
    IN  frustum(Float_neg(xmax), xmax, Float_neg(ymax), ymax, near, far)

\* the planes, ratios and distances the builders are called with
ProjScalarList == <<R(0), R(2), R(-1), <<1, 2>>, R(3), Tiny>>

NumProjScalars == 4

ProjScalars == {ProjScalarList[k] : k \in 1..NumProjScalars}

\* fields of view, in degrees
FovyList == <<R(90), R(60), R(0), R(-90), R(120), R(-60)>>

NumFovy == 4

Fovys == {FovyList[k] : k \in 1..NumFovy}

\* aspect ratios: the scalars above and an infinite one
Aspects == ProjScalars \cup {<<1, 0>>}

\* results of tan: both zeros, +-1 (45 degrees), and tan 30 and tan 60
\* degrees to 1e-10
TanValues ==
    {R(0), NegZero, R(1), R(-1), <<40545, 70226>>, <<-40545, 70226>>,
     <<70226, 40545>>, <<-70226, 40545>>}

InitProjection ==
    /\ dim = 4
    /\ self = Mat4_zero
    /\ other = self
    /\ before = self
    /\ call = [op |-> "new"]
    /\ ret = NoResult
    /\ failed = ""
    /\ shadow = self
    /\ ncalls = 0
    /\ gj = Idle

\* ortho(left, right, bottom, top, near, far)
Ortho ==
    /\ call.op = "new"
    /\ \E l \in ProjScalars, r \in ProjScalars, b \in ProjScalars,
          t \in ProjScalars, n \in ProjScalars, f \in ProjScalars :
         /\ call' = [op |-> "ortho", left |-> l, right |-> r, bottom |-> b,
                     top |-> t, near |-> n, far |-> f]
         /\ self' = ortho(l, r, b, t, n, f)
    /\ ncalls' = ncalls + 1
    /\ UNCHANGED <<dim, other, before, ret, failed, shadow, gj>>

\* frustum(left, right, bottom, top, near, far)
Frustum ==
    /\ call.op = "new"
    /\ \E l \in ProjScalars, r \in ProjScalars, b \in ProjScalars,
          t \in ProjScalars, n \in ProjScalars, f \in ProjScalars :
         /\ call' = [op |-> "frustum", left |-> l, right |-> r, bottom |-> b,
                     top |-> t, near |-> n, far |-> f]
         /\ self' = frustum(l, r, b, t, n, f)
    /\ ncalls' = ncalls + 1
    /\ UNCHANGED <<dim, other, before, ret, failed, shadow, gj>>

\* perspective(fovy, aspectRatio, near, far), with t what S's tan returns for
\* the angle (fovy / two()).to_radians()
Perspective ==
    /\ call.op = "new"
    /\ \E fovy \in Fovys, a \in Aspects, n \in ProjScalars, f \in ProjScalars,
          t \in TanValues :
         LET q == to_radians(Float_div(fovy, two))
         IN  /\ TanReturns(q, t)
             /\ call' = [op |-> "perspective", fovy |-> fovy, aspectRatio |-> a,
                         near |-> n, far |-> f, tan |-> [x \in {q} |-> t]]
             /\ self' = perspective(fovy, a, n, f, [x \in {q} |-> t])
    /\ ncalls' = ncalls + 1
    /\ UNCHANGED <<dim, other, before, ret, failed, shadow, gj>>

NextProjection ==
    \/ Ortho
    \/ Frustum
    \/ Perspective

SpecProjection == InitProjection /\ [][NextProjection]_vars

\* the planes of a call are pairwise apart
PlanesApart == call.right # call.left /\ call.top # call.bottom /\ call.far # call.near

\* a column, and a matrix, without the signs of their zeros (as == of the
\* floats compares them)
PlainCol(v) == [k \in 1..Len(v) |-> Plain(v[k])]

PlainMat(m) == [c \in 1..Len(m) |-> PlainCol(m[c])]

\* C21: for r # l, t # b and f # n, ortho(l, r, b, t, n, f) has the columns
\* (2/(r-l), 0, 0, 0), (0, 2/(t-b), 0, 0), (0, 0, -2/(f-n), 0) and
\* (-(r+l)/(r-l), -(t+b)/(t-b), -(f+n)/(f-n), 1); ortho(0, 2, 0, 2, 0, 2) has
\* the columns (1,0,0,0), (0,1,0,0), (0,0,-1,0), (-1,-1,-1,1).
C21_OrthoColumns ==
    (call.op = "ortho" /\ PlanesApart) =>
        LET l == call.left   r == call.right
            b == call.bottom t == call.top
            n == call.near   f == call.far
        IN  /\ PlainCol(self[1]) = <<Div(R(2), Sub(r, l)), R(0), R(0), R(0)>>
            /\ PlainCol(self[2]) = <<R(0), Div(R(2), Sub(t, b)), R(0), R(0)>>
            /\ PlainCol(self[3]) = <<R(0), R(0), Neg(Div(R(2), Sub(f, n))), R(0)>>
            /\ PlainCol(self[4]) =
                  <<Neg(Div(Add(r, l), Sub(r, l))), Neg(Div(Add(t, b), Sub(t, b))),
                    Neg(Div(Add(f, n), Sub(f, n))), R(1)>>
            /\ (l = R(0) /\ r = R(2) /\ b = R(0) /\ t = R(2) /\ n = R(0) /\ f = R(2)) =>
                  PlainMat(self) =
                      <<<<R(1), R(0), R(0), R(0)>>, <<R(0), R(1), R(0), R(0)>>,
                        <<R(0), R(0), R(-1), R(0)>>, <<R(-1), R(-1), R(-1), R(1)>>>>

C21_Witness ==
    /\ call = [op |-> "ortho", left |-> R(0), right |-> R(2), bottom |-> R(0),
               top |-> R(2), near |-> R(0), far |-> R(2)]
    /\ self[4] = <<R(-1), R(-1), R(-1), R(1)>>

\* C22: for r # l, t # b and f # n, frustum(l, r, b, t, n, f) has the columns
\* (2n/(r-l), 0, 0, 0), (0, 2n/(t-b), 0, 0),
\* ((r+l)/(r-l), (t+b)/(t-b), -(f+n)/(f-n), -1) and (0, 0, -2fn/(f-n), 0).
C22_FrustumColumns ==
    (call.op = "frustum" /\ PlanesApart) =>
        LET l == call.left   r == call.right
            b == call.bottom t == call.top
            n == call.near   f == call.far
        IN  /\ PlainCol(self[1]) = <<Div(Mul(R(2), n), Sub(r, l)), R(0), R(0), R(0)>>
            /\ PlainCol(self[2]) = <<R(0), Div(Mul(R(2), n), Sub(t, b)), R(0), R(0)>>
            /\ PlainCol(self[3]) =
                  <<Div(Add(r, l), Sub(r, l)), Div(Add(t, b), Sub(t, b)),
                    Neg(Div(Add(f, n), Sub(f, n))), R(-1)>>
            /\ PlainCol(self[4]) =
                  <<R(0), R(0), Neg(Div(Mul(R(2), Mul(f, n)), Sub(f, n))), R(0)>>

C22_Witness ==
    /\ call = [op |-> "frustum", left |-> R(-1), right |-> R(2), bottom |-> R(0),
               top |-> <<1, 2>>, near |-> <<1, 2>>, far |-> R(2)]
    /\ self[3] = <<<<1, 3>>, R(1), <<-5, 3>>, R(-1)>>
    /\ self[4] = <<R(0), R(0), <<-4, 3>>, R(0)>>

\* the angle of a call of perspective, what tan returned for it, and the
\* call's ymax and xmax
HalfFovy == to_radians(Float_div(call.fovy, R(2)))

Ymax == Float_mul(call.near, call.tan[HalfFovy])

Xmax == Float_mul(Ymax, call.aspectRatio)

\* the symmetric frustum of half width x and half height y, by its columns
SymmetricFrustum(x, y, n, f) ==
    <<<<Float_div(n, x), R(0), R(0), R(0)>>,
      <<R(0), Float_div(n, y), R(0), R(0)>>,
      <<Float_div(R(0), x), Float_div(R(0), y), Neg(Div(Add(f, n), Sub(f, n))), R(-1)>>,
      <<R(0), R(0), Neg(Div(Mul(R(2), Mul(f, n)), Sub(f, n))), R(0)>>>>

AsymmetricIsNaN ==
    call.op = "perspective" =>
        /\ (IsZero(Xmax) \/ ~IsFinite(Xmax)) => IsNaN(E(self, 2, 0))
        /\ (IsZero(Ymax) \/ ~IsFinite(Ymax)) => IsNaN(E(self, 2, 1))

\* a zero xmax or ymax carries the sign of the product it comes from, and
\* the infinite entries of the frustum take their sign from it
SignedZeroInfinity ==
    (call.op = "perspective" /\ IsZero(Xmax) /\ ~IsZero(call.near)) =>
        E(self, 0, 0) = <<IF Negative(call.near) # Negative(Xmax) THEN -1 ELSE 1, 0>>

============================================================================
